---- MODULE Spec2Model ----
(***************************************************************************)
(* Model of django_socio_grpc/utils/registry_singleton.py: the process-wide *)
(* RegistrySingleton, its message registrar, field resolver, naming rules   *)
(* and the two registration paths (register_service for the conventional    *)
(* kinds, register_custom_action for declared actions).                     *)
(*                                                                          *)
(* Text values.  A Python str is a sequence of words: a class name          *)
(* "WidgetProtoSerializer" is <<"Widget","Proto","Serializer">>, a type     *)
(* descriptor "repeated int32" is <<"repeated ","int32">>.  The constants   *)
(* the code searches for ("Serializer", "Request", "List", "repeated ",     *)
(* "google.protobuf") are whole words, so endswith / startswith / in /      *)
(* slicing by len(suffix) act on words exactly as they act on characters.   *)
(*                                                                          *)
(* Ordered mappings.  An OrderedDict (and a dict) is a sequence of          *)
(* <<key, value>> pairs in insertion order without duplicate keys.          *)
(***************************************************************************)
EXTENDS Integers, Sequences, FiniteSets, TLC

VARIABLES instances, heap, settings, last, calls, handle

vars == <<instances, heap, settings, last, calls, handle>>

(***************************************************************************)
(* Bounds of the model.                                                     *)
(***************************************************************************)
\* number of API calls in one behaviour
MaxCalls == 3
\* number of registry objects ever constructed
MaxObjects == 2
\* depth at which the interpreter gives up a recursion (RecursionError)
MaxDepth == 8
\* number of words in a class name given to the naming rules
MaxWords == 3
\* number of calls in one behaviour of the declared actions
MaxDeclarations == 2

(***************************************************************************)
(* Python values.                                                           *)
(***************************************************************************)
None == <<"None">>

DEFAULT_LIST_FIELD_NAME == "results"
REQUEST_SUFFIX == <<"Request">>
RESPONSE_SUFFIX == <<"Response">>

\* s.startswith(p)
StartsWith(s, p) == Len(s) >= Len(p) /\ SubSeq(s, 1, Len(p)) = p

\* s.endswith(p)
EndsWith(s, p) == Len(s) >= Len(p) /\ SubSeq(s, Len(s) - Len(p) + 1, Len(s)) = p

\* the positions at which p occurs in s
Occurrences(s, p) ==
    {i \in 1..(Len(s) - Len(p) + 1) : SubSeq(s, i, i + Len(p) - 1) = p}

\* p in s
Contains(s, p) == Occurrences(s, p) # {}

SetMax(S) == CHOOSE x \in S : \A y \in S : y <= x

\* rreplace(s, old, "", 1): s without the rightmost occurrence of old
rreplace(s, old) ==
    IF Occurrences(s, old) = {} THEN s
    ELSE LET i == SetMax(Occurrences(s, old))
         IN SubSeq(s, 1, i - 1) \o SubSeq(s, i + Len(old), Len(s))

\* s[:-n] of Python: -0 is 0, so s[:-0] is the empty string
SliceUntilMinus(s, n) == IF n = 0 THEN <<>> ELSE SubSeq(s, 1, Len(s) - n)

\* s[-n:] of Python: s[-0:] is the whole string
SliceFromMinus(s, n) == IF n = 0 THEN s ELSE SubSeq(s, Len(s) - n + 1, Len(s))

(***************************************************************************)
(* Ordered mappings.                                                        *)
(***************************************************************************)
Keys(d) == {d[i][1] : i \in DOMAIN d}

Has(d, k) == k \in Keys(d)

IndexOf(d, k) == CHOOSE i \in DOMAIN d : d[i][1] = k

Get(d, k) == d[IndexOf(d, k)][2]

\* d[k] = v: an existing key keeps its position, a new key goes last
Put(d, k, v) ==
    IF Has(d, k) THEN [d EXCEPT ![IndexOf(d, k)] = <<k, v>>]
    ELSE Append(d, <<k, v>>)

KeySeq(d) == [i \in DOMAIN d |-> d[i][1]]

(***************************************************************************)
(* KnowMethods.                                                             *)
(***************************************************************************)
LIST == "List"
CREATE == "Create"
RETRIEVE == "Retrieve"
UPDATE == "Update"
PARTIAL_UPDATE == "PartialUpdate"
DESTROY == "Destroy"
STREAM == "Stream"

\* mutation: the kinds are listed from the last to the first
get_as_list_reversed == <<STREAM, DESTROY, PARTIAL_UPDATE, UPDATE, RETRIEVE, CREATE, LIST>>

get_as_list == <<LIST, CREATE, RETRIEVE, UPDATE, PARTIAL_UPDATE, DESTROY, STREAM>>

get_methods_no_custom_messages == {CREATE, UPDATE, PARTIAL_UPDATE}

get_methods_no_stream == {LIST, CREATE, RETRIEVE, UPDATE, PARTIAL_UPDATE, DESTROY}

(***************************************************************************)
(* RegistrySingleton.type_mapping, keyed by class name.                     *)
(***************************************************************************)
type_mapping ==
    [c \in {"AutoField", "SmallIntegerField", "IntegerField", "BigIntegerField",
            "PositiveSmallIntegerField", "PositiveIntegerField", "FloatField",
            "DecimalField", "BooleanField", "NullBooleanField", "DateField",
            "TimeField", "DateTimeField", "DurationField", "CharField",
            "TextField", "EmailField", "SlugField", "URLField", "UUIDField",
            "GenericIPAddressField", "FilePathField", "BinaryField", "Field",
            "JSONField", "PositiveBigIntegerField"} |->
        CASE c \in {"AutoField", "SmallIntegerField", "IntegerField",
                    "PositiveSmallIntegerField", "PositiveIntegerField"} -> <<"int32">>
          [] c \in {"BigIntegerField", "PositiveBigIntegerField"} -> <<"int64">>
          [] c = "FloatField" -> <<"float">>
          [] c = "DecimalField" -> <<"double">>
          [] c \in {"BooleanField", "NullBooleanField"} -> <<"bool">>
          [] c = "BinaryField" -> <<"bytes">>
          [] c = "JSONField" -> <<"google.protobuf", ".Struct">>
          [] OTHER -> <<"string">>]

\* type_mapping.get(name, default)
type_mapping_get(name, default) ==
    IF name \in DOMAIN type_mapping THEN type_mapping[name] ELSE default

(***************************************************************************)
(* The serializer layer (rest_framework, proto_serializers): the classes   *)
(* the registry inspects.  A field is a record; Bases is the set of        *)
(* classes issubclass(field.__class__, X) answers True for.                *)
(***************************************************************************)
\* a plain field of class cls
Field(cls) ==
    [cls |-> cls, bases |-> {"Field"}, read_only |-> FALSE, write_only |-> FALSE,
     ser |-> "", rel |-> <<>>, slug_field |-> "", pk_field |-> "",
     queryset_model |-> "", model_field |-> "", child_cls |-> "",
     method_name |-> None, literal |-> <<>>]

ReadOnly(f) == [f EXCEPT !.read_only = TRUE]

WriteOnly(f) == [f EXCEPT !.write_only = TRUE]

HiddenField == [Field("HiddenField") EXCEPT !.bases = {"HiddenField", "Field"},
                                            !.write_only = TRUE]

SerializerMethodField ==
    [Field("SerializerMethodField") EXCEPT
        !.bases = {"SerializerMethodField", "Field"}, !.read_only = TRUE]

\* SomeProtoSerializer(): a nested serializer used as a field
Nested(s) ==
    [Field(s) EXCEPT !.bases = {"BaseProtoSerializer", "BaseSerializer", "Field"},
                     !.ser = s]

\* SomeProtoSerializer(many=True): a ListProtoSerializer whose child is s
NestedMany(s) ==
    [Field("ListProtoSerializer") EXCEPT
        !.bases = {"ListProtoSerializer", "ListSerializer", "BaseProtoSerializer",
                   "BaseSerializer", "Field"},
        !.ser = s]

PrimaryKeyRelatedField(model) ==
    [Field("PrimaryKeyRelatedField") EXCEPT
        !.bases = {"RelatedField", "Field"}, !.queryset_model = model]

SlugRelatedField(slug) ==
    [Field("SlugRelatedField") EXCEPT
        !.bases = {"SlugRelatedField", "RelatedField", "Field"}, !.slug_field = slug]

\* SomeRelatedField(many=True): a ManyRelatedField around child_relation
ManyRelatedField(child_relation) ==
    [Field("ManyRelatedField") EXCEPT
        !.bases = {"ManyRelatedField", "Field"}, !.rel = <<child_relation>>]

ListField(child_cls) ==
    [Field("ListField") EXCEPT !.bases = {"ListField", "Field"}, !.child_cls = child_cls]

DictField == [Field("DictField") EXCEPT !.bases = {"DictField", "Field"}]

ModelField(model_field) ==
    [Field("ModelField") EXCEPT !.bases = {"ModelField", "Field"},
                                !.model_field = model_field]

\* a field of get_fields() that is already a type name (a str)
StrField(type) == [Field("str") EXCEPT !.bases = {"str"}, !.literal = type]

issubclass(field_type, base) == base \in field_type.bases

(***************************************************************************)
(* The model layer: primary key and relationship metadata of each model.   *)
(* attrs maps a class attribute of the model to the class of its .field    *)
(* ("" for an attribute that is no model field and has no .field).         *)
(***************************************************************************)
Models ==
    [m \in {"WidgetModel", "BookModel", "TagModel"} |->
        CASE m = "WidgetModel" ->
               [pk_name |-> "id", pk_cls |-> "AutoField",
                relationships |-> <<>>,
                attrs |-> << <<"id", "AutoField">>, <<"name", "CharField">> >>]
          [] m = "BookModel" ->
               [pk_name |-> "isbn", pk_cls |-> "BigIntegerField",
                relationships |->
                    << <<"tags", [related_model |-> "TagModel", to_many |-> TRUE]>>,
                       <<"shelf", [related_model |-> "TagModel", to_many |-> FALSE]>> >>,
                attrs |-> << <<"isbn", "BigIntegerField">> >>]
          [] m = "TagModel" ->
               [pk_name |-> "id", pk_cls |-> "UUIDField",
                relationships |-> <<>>,
                attrs |-> << <<"id", "UUIDField">>, <<"label", "CharField">>,
                             <<"rank", "IntegerField">>, <<"color", "ColorField">>,
                             <<"pk", "">> >>]]

(***************************************************************************)
(* The serializer classes of the project under generation.                 *)
(* meta_model is "" when Meta declares no model, message_list_attr is ""   *)
(* when Meta declares none.  methods maps an accessor name to its return   *)
(* annotation ("" when it declares none).                                  *)
(***************************************************************************)
SerializerNames ==
    {"WidgetSerializer", "WidgetProtoSerializer", "AuthorProtoSerializer",
     "BookProtoSerializer", "NodeSerializer", "ReportSerializer",
     "CatalogSerializer", "GaugeSerializer", "LooseSerializer",
     "ShelfSerializer", "PinSerializer"}

Serializers ==
    [s \in SerializerNames |->
        CASE s = "WidgetSerializer" ->
               [class_name |-> <<"Widget", "Serializer">>,
                meta_model |-> "WidgetModel", message_list_attr |-> "",
                methods |-> <<>>,
                fields |-> << <<"id", ReadOnly(Field("IntegerField"))>>,
                              <<"name", Field("CharField")>>,
                              <<"secret", WriteOnly(Field("CharField"))>>,
                              <<"created", ReadOnly(Field("DateTimeField"))>>,
                              <<"token", HiddenField>> >>]
          [] s = "WidgetProtoSerializer" ->
               [class_name |-> <<"Widget", "Proto", "Serializer">>,
                meta_model |-> "", message_list_attr |-> "items",
                methods |-> << << <<"get_", "size">>, "int">> >>,
                fields |-> << <<"title", Field("CharField")>>,
                              <<"size", SerializerMethodField>>,
                              <<"extra", DictField>> >>]
          [] s = "AuthorProtoSerializer" ->
               [class_name |-> <<"Author", "Proto", "Serializer">>,
                meta_model |-> "", message_list_attr |-> "authors",
                methods |-> <<>>,
                fields |-> << <<"name", Field("CharField")>>,
                              <<"books", NestedMany("BookProtoSerializer")>> >>]
          [] s = "BookProtoSerializer" ->
               [class_name |-> <<"Book", "Proto", "Serializer">>,
                meta_model |-> "BookModel", message_list_attr |-> "",
                methods |-> <<>>,
                fields |-> << <<"isbn", ReadOnly(Field("IntegerField"))>>,
                              <<"author", Nested("AuthorProtoSerializer")>>,
                              <<"tags", ManyRelatedField(SlugRelatedField("label"))>>,
                              <<"shelf", SlugRelatedField("rank")>>,
                              <<"owners", ManyRelatedField(
                                              PrimaryKeyRelatedField("WidgetModel"))>>,
                              <<"pages", ListField("IntegerField")>> >>]
          [] s = "NodeSerializer" ->
               [class_name |-> <<"Node", "Serializer">>,
                meta_model |-> "", message_list_attr |-> "",
                methods |-> <<>>,
                fields |-> << <<"value", Field("IntegerField")>>,
                              <<"parent", Nested("NodeSerializer")>> >>]
          [] s = "ReportSerializer" ->
               [class_name |-> <<"Report", "Serializer">>,
                meta_model |-> "", message_list_attr |-> "",
                methods |-> << << <<"get_", "score">>, "">> >>,
                fields |-> << <<"title", Field("CharField")>>,
                              <<"score", SerializerMethodField>>,
                              <<"owner", PrimaryKeyRelatedField("WidgetModel")>> >>]
          \* fields of classes that type_mapping does not know
          [] s = "CatalogSerializer" ->
               [class_name |-> <<"Catalog", "Serializer">>,
                meta_model |-> "BookModel", message_list_attr |-> "",
                methods |-> <<>>,
                fields |-> << <<"code", Field("MoneyField")>>,
                              <<"price", ModelField("MoneyField")>>,
                              <<"sizes", ListField("MoneyField")>>,
                              <<"owner", [PrimaryKeyRelatedField("WidgetModel")
                                             EXCEPT !.pk_field = "MoneyField"]>>,
                              <<"shelf", SlugRelatedField("color")>>,
                              <<"name", Field("CharField")>> >>]
          \* an accessor annotated with a type outside the translation table
          [] s = "GaugeSerializer" ->
               [class_name |-> <<"Gauge", "Serializer">>,
                meta_model |-> "", message_list_attr |-> "",
                methods |-> << << <<"get_", "level">>, "Decimal">> >>,
                fields |-> << <<"title", Field("CharField")>>,
                              <<"level", SerializerMethodField>>,
                              <<"unit", Field("CharField")>> >>]
          \* a slug relation in a serializer without backing model
          [] s = "LooseSerializer" ->
               [class_name |-> <<"Loose", "Serializer">>,
                meta_model |-> "", message_list_attr |-> "",
                methods |-> <<>>,
                fields |-> << <<"ref", SlugRelatedField("label")>>,
                              <<"note", Field("IntegerField")>> >>]
          \* slug relations under a name that is no relationship of the model,
          \* and to an attribute the related model does not have
          [] s = "ShelfSerializer" ->
               [class_name |-> <<"Shelf", "Serializer">>,
                meta_model |-> "BookModel", message_list_attr |-> "",
                methods |-> <<>>,
                fields |-> << <<"binding", SlugRelatedField("label")>>,
                              <<"shelf", SlugRelatedField("missing")>>,
                              <<"tags", ManyRelatedField(SlugRelatedField("missing"))>>,
                              <<"note", Field("IntegerField")>> >>]
          \* a slug relation to an attribute of the related model that is no
          \* model field (the pk property)
          [] s = "PinSerializer" ->
               [class_name |-> <<"Pin", "Serializer">>,
                meta_model |-> "BookModel", message_list_attr |-> "",
                methods |-> <<>>,
                fields |-> << <<"shelf", SlugRelatedField("pk")>>,
                              <<"note", Field("IntegerField")>> >>]]

(***************************************************************************)
(* The registry content: registered_app is an ordered mapping              *)
(*   app name -> [registered_controllers, registered_messages].            *)
(* Every operation below maps a registered_app value to a result           *)
(*   [reg |-> the registered_app it leaves, ret |-> the value returned,    *)
(*    exc |-> "" or the exception raised,                                  *)
(*    args |-> the values its message names, in the order of the message]. *)
(***************************************************************************)
Returned(reg, ret) == [reg |-> reg, ret |-> ret, exc |-> "", args |-> <<>>]

Raised(reg, exc) == [reg |-> reg, ret |-> None, exc |-> exc, args |-> <<>>]

\* raise exc(f"... {args[1]} ... {args[2]} ...")
RaisedWith(reg, exc, args) == [reg |-> reg, ret |-> None, exc |-> exc, args |-> args]

RegisterServiceException == "RegisterServiceException"

EmptyApp == [registered_controllers |-> <<>>, registered_messages |-> <<>>]

registered_messages(reg, app_name) == Get(reg, app_name).registered_messages

registered_controllers(reg, app_name) == Get(reg, app_name).registered_controllers

\* registered_app[app_name]["registered_messages"][message_name] = fields
SetMessage(reg, app_name, message_name, fields) ==
    Put(reg, app_name,
        [Get(reg, app_name) EXCEPT
            !.registered_messages = Put(@, message_name, fields)])

\* mutation: the field is inserted at the head of the list
AppendToMessage_at_front(reg, app_name, message_name, field) ==
    SetMessage(reg, app_name, message_name,
               <<field>> \o Get(registered_messages(reg, app_name), message_name))

\* registered_app[app_name]["registered_messages"][message_name].append(field)
AppendToMessage(reg, app_name, message_name, field) ==
    SetMessage(reg, app_name, message_name,
               Append(Get(registered_messages(reg, app_name), message_name), field))

\* registered_app[app_name]["registered_controllers"][controller_name] = methods
SetController(reg, app_name, controller_name, methods) ==
    Put(reg, app_name,
        [Get(reg, app_name) EXCEPT
            !.registered_controllers = Put(@, controller_name, methods)])

(***************************************************************************)
(* Naming.                                                                  *)
(***************************************************************************)
get_message_name_from_field_or_serializer_instance(class_name, is_request, append_type) ==
    LET message_name ==
            IF Contains(class_name, <<"Proto", "Serializer">>)
            THEN rreplace(class_name, <<"Proto", "Serializer">>)
            ELSE IF Contains(class_name, <<"Serializer">>)
                 THEN rreplace(class_name, <<"Serializer">>)
                 ELSE class_name
    IN IF settings.SEPARATE_READ_WRITE_MODEL /\ append_type
       THEN message_name \o (IF is_request THEN REQUEST_SUFFIX ELSE RESPONSE_SUFFIX)
       ELSE message_name

field_type_is_read_only(field_type) ==
    IF issubclass(field_type, "ReadOnlyField") THEN TRUE ELSE field_type.read_only

field_type_is_write_only(field_type) == field_type.write_only

(***************************************************************************)
(* Field resolver helpers.                                                  *)
(***************************************************************************)
\* model_meta.get_model_pk(model)
get_model_pk(model) == [name |-> Models[model].pk_name, cls |-> Models[model].pk_cls]

python_type_to_proto_type ==
    [t \in {"int", "str", "bool", "float", "list", "dict", "bytes", "List", "Dict",
            "List[int]", "List[str]", "List[bool]", "List[Tuple]", "List[Dict]"} |->
        CASE t = "int" -> <<"int32">>
          [] t = "str" -> <<"string">>
          [] t = "bool" -> <<"bool">>
          [] t = "float" -> <<"float">>
          [] t \in {"list", "List", "List[str]"} -> <<"repeated ", "string">>
          [] t \in {"dict", "Dict"} -> <<"google.protobuf", ".Struct">>
          [] t = "bytes" -> <<"bytes">>
          [] t = "List[int]" -> <<"repeated ", "int32">>
          [] t = "List[bool]" -> <<"repeated ", "bool">>
          [] OTHER -> <<"repeated ", "google.protobuf", ".Struct">>]

\* mutation: an accessor without return annotation is taken as a string
get_proto_type_from_inspect_unannotated_as_string(reg, field_type, field_name, serializer) ==
    LET method_name == IF field_type.method_name = None
                       THEN <<"get_", field_name>>
                       ELSE field_type.method_name
        methods == Serializers[serializer].methods
    IN IF ~Has(methods, method_name) \/ Get(methods, method_name) = ""
       THEN Returned(reg, <<"string">>)
       ELSE IF Get(methods, method_name) \notin DOMAIN python_type_to_proto_type
            THEN Raised(reg, "KeyError")
            ELSE Returned(reg, python_type_to_proto_type[Get(methods, method_name)])

get_proto_type_from_inspect(reg, field_type, field_name, serializer) ==
    LET method_name == IF field_type.method_name = None
                       THEN <<"get_", field_name>>
                       ELSE field_type.method_name
        methods == Serializers[serializer].methods
    IN IF ~Has(methods, method_name) THEN Returned(reg, <<"string">>)
       ELSE IF Get(methods, method_name) = ""
            THEN RaisedWith(reg, RegisterServiceException,
                            <<Serializers[serializer].class_name, field_name>>)
            ELSE IF Get(methods, method_name) \notin DOMAIN python_type_to_proto_type
                 THEN Raised(reg, "KeyError")
                 ELSE Returned(reg, python_type_to_proto_type[Get(methods, method_name)])

get_pk_from_related_field(related_field) ==
    LET type_name == IF related_field.pk_field # ""
                     THEN related_field.pk_field
                     ELSE get_model_pk(related_field.queryset_model).cls
    IN type_mapping_get(type_name, <<"related_not_found">>)

get_pk_from_slug_related_field(reg, slug_related_field, field_name, serializer) ==
    LET model == Serializers[serializer].meta_model IN
    IF model = "" THEN Returned(reg, <<"string">>)
    ELSE LET relationships == Models[model].relationships IN
         IF ~Has(relationships, field_name) THEN Returned(reg, <<"string">>)
         ELSE LET rel == Get(relationships, field_name)
                  attrs == Models[rel.related_model].attrs
              IN IF ~Has(attrs, slug_related_field.slug_field)
                 THEN Returned(reg, <<"string">>)
                 ELSE IF Get(attrs, slug_related_field.slug_field) = ""
                 THEN Raised(reg, "AttributeError")
                 ELSE LET slug_field_class_name ==
                              Get(attrs, slug_related_field.slug_field)
                          proto_type ==
                              type_mapping_get(slug_field_class_name,
                                               <<"slug_field type not found">>)
                      IN Returned(reg, IF rel.to_many
                                       THEN <<"repeated ">> \o proto_type
                                       ELSE proto_type)

(***************************************************************************)
(* Message registrar and field resolver (mutually recursive).  depth is    *)
(* the number of nested calls; beyond MaxDepth the interpreter raises      *)
(* RecursionError.                                                          *)
(***************************************************************************)
RECURSIVE register_serializer_as_message_if_not_exist(_, _, _, _, _, _)
RECURSIVE RegisterFields(_, _, _, _, _, _, _, _)
RECURSIVE get_proto_type(_, _, _, _, _, _, _)

\* mutation: the membership test of line 162 is lost
MessageRegistered_never(reg, app_name, message_name) == FALSE

\* line 162: the message is already in the app's table
MessageRegistered(reg, app_name, message_name) ==
    Has(registered_messages(reg, app_name), message_name)

\* line 165: the message enters the table with an empty field list
OpenMessage(reg, app_name, message_name) ==
    SetMessage(reg, app_name, message_name, <<>>)

\* lines 170-179: the field is left out of the message
\* mutation: the primary key is filtered like any other field
FieldSkipped_pk_filtered(field_name, field_type, pk_name, is_request) ==
    \/ issubclass(field_type, "HiddenField")
    \/ /\ settings.SEPARATE_READ_WRITE_MODEL
       /\ \/ is_request /\ field_type_is_read_only(field_type)
          \/ ~is_request /\ field_type_is_write_only(field_type)

FieldSkipped(field_name, field_type, pk_name, is_request) ==
    \/ issubclass(field_type, "HiddenField")
    \/ /\ settings.SEPARATE_READ_WRITE_MODEL
       /\ field_name # pk_name
       /\ \/ is_request /\ field_type_is_read_only(field_type)
          \/ ~is_request /\ field_type_is_write_only(field_type)

\* mutation: the child's own marker is not removed before re-wrapping
ManyRelatedType_keeps_marker(child_proto_type) == <<"repeated ">> \o child_proto_type

\* lines 278-288: a ManyRelatedField repeats the type of its child relation
ManyRelatedType(child_proto_type) ==
    <<"repeated ">> \o (IF StartsWith(child_proto_type, <<"repeated ">>)
                        THEN Tail(child_proto_type)
                        ELSE child_proto_type)

\* mutation: a nested serializer is named in the parent and not registered
get_proto_type_child_unregistered(reg, app_name, field_type, field_name, serializer, is_request, depth) ==
    IF depth > MaxDepth THEN Raised(reg, "RecursionError")
    ELSE IF issubclass(field_type, "str") THEN Returned(reg, field_type.literal)
    ELSE IF issubclass(field_type, "ListProtoSerializer") THEN
        Returned(reg, <<"repeated ">> \o
                      get_message_name_from_field_or_serializer_instance(
                          Serializers[field_type.ser].class_name, is_request, TRUE))
    ELSE IF issubclass(field_type, "BaseProtoSerializer") THEN
        Returned(reg, get_message_name_from_field_or_serializer_instance(
                          Serializers[field_type.ser].class_name, is_request, TRUE))
    ELSE IF issubclass(field_type, "SlugRelatedField") THEN
        get_pk_from_slug_related_field(reg, field_type, field_name, serializer)
    ELSE IF issubclass(field_type, "ManyRelatedField") THEN
        LET Resolved(r) ==
                IF r.exc # "" THEN r ELSE Returned(r.reg, ManyRelatedType(r.ret))
        IN Resolved(get_proto_type(reg, app_name, field_type.rel[1], field_name,
                                   serializer, is_request, depth + 1))
    ELSE IF issubclass(field_type, "RelatedField") THEN
        Returned(reg, get_pk_from_related_field(field_type))
    ELSE IF issubclass(field_type, "ListSerializer") THEN
        Returned(reg, <<"repeated ", "google.protobuf", ".Struct">>)
    ELSE IF issubclass(field_type, "ModelField") THEN
        Returned(reg, type_mapping_get(field_type.model_field, <<"string">>))
    ELSE IF issubclass(field_type, "ListField") THEN
        Returned(reg, <<"repeated ">> \o
                      type_mapping_get(field_type.child_cls, <<"string">>))
    ELSE IF issubclass(field_type, "DictField") THEN
        Returned(reg, <<"google.protobuf", ".Struct">>)
    ELSE IF issubclass(field_type, "BaseSerializer") THEN
        Returned(reg, <<"google.protobuf", ".Struct">>)
    ELSE IF issubclass(field_type, "SerializerMethodField") THEN
        get_proto_type_from_inspect(reg, field_type, field_name, serializer)
    ELSE Returned(reg, type_mapping_get(field_type.cls, <<"string">>))

get_proto_type(reg, app_name, field_type, field_name, serializer, is_request, depth) ==
    IF depth > MaxDepth THEN Raised(reg, "RecursionError")
    ELSE IF issubclass(field_type, "str") THEN Returned(reg, field_type.literal)
    ELSE IF issubclass(field_type, "ListProtoSerializer") THEN
        LET Resolved(r) ==
                IF r.exc # "" THEN r
                ELSE Returned(r.reg,
                         <<"repeated ">> \o
                         get_message_name_from_field_or_serializer_instance(
                             Serializers[field_type.ser].class_name, is_request, TRUE))
        IN Resolved(register_serializer_as_message_if_not_exist(
                        reg, app_name, field_type.ser, None, is_request, depth + 1))
    ELSE IF issubclass(field_type, "BaseProtoSerializer") THEN
        LET Resolved(r) ==
                IF r.exc # "" THEN r
                ELSE Returned(r.reg,
                         get_message_name_from_field_or_serializer_instance(
                             Serializers[field_type.ser].class_name, is_request, TRUE))
        IN Resolved(register_serializer_as_message_if_not_exist(
                        reg, app_name, field_type.ser, None, is_request, depth + 1))
    ELSE IF issubclass(field_type, "SlugRelatedField") THEN
        get_pk_from_slug_related_field(reg, field_type, field_name, serializer)
    ELSE IF issubclass(field_type, "ManyRelatedField") THEN
        LET Resolved(r) ==
                IF r.exc # "" THEN r ELSE Returned(r.reg, ManyRelatedType(r.ret))
        IN Resolved(get_proto_type(reg, app_name, field_type.rel[1], field_name,
                                   serializer, is_request, depth + 1))
    ELSE IF issubclass(field_type, "RelatedField") THEN
        Returned(reg, get_pk_from_related_field(field_type))
    ELSE IF issubclass(field_type, "ListSerializer") THEN
        Returned(reg, <<"repeated ", "google.protobuf", ".Struct">>)
    ELSE IF issubclass(field_type, "ModelField") THEN
        Returned(reg, type_mapping_get(field_type.model_field, <<"string">>))
    ELSE IF issubclass(field_type, "ListField") THEN
        Returned(reg, <<"repeated ">> \o
                      type_mapping_get(field_type.child_cls, <<"string">>))
    ELSE IF issubclass(field_type, "DictField") THEN
        Returned(reg, <<"google.protobuf", ".Struct">>)
    ELSE IF issubclass(field_type, "BaseSerializer") THEN
        Returned(reg, <<"google.protobuf", ".Struct">>)
    ELSE IF issubclass(field_type, "SerializerMethodField") THEN
        get_proto_type_from_inspect(reg, field_type, field_name, serializer)
    ELSE Returned(reg, type_mapping_get(field_type.cls, <<"string">>))

\* lines 167-194: the loop over get_fields().items(), from its i-th item on
RegisterFields(reg, app_name, serializer, message_name, is_request, pk_name, i, depth) ==
    LET fields == Serializers[serializer].fields IN
    IF i > Len(fields) THEN Returned(reg, message_name)
    ELSE LET field_name == fields[i][1]
             field_type == fields[i][2]
         IN IF FieldSkipped(field_name, field_type, pk_name, is_request)
            THEN RegisterFields(reg, app_name, serializer, message_name,
                                is_request, pk_name, i + 1, depth)
            ELSE LET Appended(r) ==
                         IF r.exc # "" THEN r
                         ELSE RegisterFields(
                                  AppendToMessage(r.reg, app_name, message_name,
                                                  <<field_name, r.ret>>),
                                  app_name, serializer, message_name, is_request,
                                  pk_name, i + 1, depth)
                 IN Appended(get_proto_type(reg, app_name, field_type, field_name,
                                            serializer, is_request, depth + 1))

\* mutation: no membership test, and the fields are appended to the list
\* that is already there (setdefault instead of the test and the assignment)
register_serializer_appending(reg, app_name, serializer, given_name, is_request, depth) ==
    LET message_name ==
            IF given_name = None
            THEN get_message_name_from_field_or_serializer_instance(
                     Serializers[serializer].class_name, is_request, TRUE)
            ELSE given_name
        pk_name == IF Serializers[serializer].meta_model # ""
                   THEN get_model_pk(Serializers[serializer].meta_model).name
                   ELSE ""
    IN IF depth > MaxDepth THEN Raised(reg, "RecursionError")
       ELSE IF ~Has(reg, app_name) THEN Raised(reg, "KeyError")
       ELSE RegisterFields(IF MessageRegistered(reg, app_name, message_name)
                           THEN reg
                           ELSE OpenMessage(reg, app_name, message_name),
                           app_name, serializer, message_name, is_request,
                           pk_name, 1, depth)

register_serializer_as_message_if_not_exist(reg, app_name, serializer, given_name, is_request, depth) ==
    LET message_name ==
            IF given_name = None
            THEN get_message_name_from_field_or_serializer_instance(
                     Serializers[serializer].class_name, is_request, TRUE)
            ELSE given_name
        pk_name == IF Serializers[serializer].meta_model # ""
                   THEN get_model_pk(Serializers[serializer].meta_model).name
                   ELSE ""
    IN IF depth > MaxDepth THEN Raised(reg, "RecursionError")
       ELSE IF ~Has(reg, app_name) THEN Raised(reg, "KeyError")
       ELSE IF MessageRegistered(reg, app_name, message_name)
            THEN Returned(reg, message_name)
            ELSE RegisterFields(OpenMessage(reg, app_name, message_name),
                                app_name, serializer, message_name, is_request,
                                pk_name, 1, depth)

(***************************************************************************)
(* The service layer: the service classes of the project.  methods is the  *)
(* set of conventional kinds the class implements; pagination_class is     *)
(* None or a paginator class.                                               *)
(***************************************************************************)
PageNumberPagination == <<"PageNumberPagination">>

ServiceNames ==
    {"WidgetService", "WidgetLookupService", "WidgetBrokenService",
     "LibraryService", "ReportService"}

\* the services of the catalog app
CatalogServiceNames == {"CatalogService", "PurgeService"}

Services ==
    [s \in ServiceNames \cup CatalogServiceNames |->
        CASE s = "WidgetService" ->
               [module |-> <<"shop", "services">>, service_name |-> <<"Widget">>,
                serializer |-> "WidgetSerializer",
                methods |-> {LIST, CREATE, RETRIEVE, UPDATE, PARTIAL_UPDATE,
                             DESTROY, STREAM},
                lookup_request_field |-> "id",
                pagination_class |-> PageNumberPagination]
          [] s = "WidgetLookupService" ->
               [module |-> <<"shop", "services">>,
                service_name |-> <<"Widget", "Lookup">>,
                serializer |-> "WidgetSerializer",
                methods |-> {LIST, RETRIEVE},
                lookup_request_field |-> "name",
                pagination_class |-> None]
          [] s = "WidgetBrokenService" ->
               [module |-> <<"shop", "services">>,
                service_name |-> <<"Widget", "Broken">>,
                serializer |-> "WidgetSerializer",
                methods |-> {LIST, CREATE, RETRIEVE, UPDATE, DESTROY},
                lookup_request_field |-> "uuid",
                pagination_class |-> None]
          [] s = "LibraryService" ->
               [module |-> <<"library", "services">>,
                service_name |-> <<"Library">>,
                serializer |-> "AuthorProtoSerializer",
                methods |-> {LIST, CREATE, STREAM},
                lookup_request_field |-> "name",
                pagination_class |-> None]
          [] s = "ReportService" ->
               [module |-> <<"library", "services">>,
                service_name |-> <<"Report">>,
                serializer |-> "ReportSerializer",
                methods |-> {CREATE, LIST},
                lookup_request_field |-> "title",
                pagination_class |-> None]
          [] s = "CatalogService" ->
               [module |-> <<"catalog", "services">>,
                service_name |-> <<"Catalog">>,
                serializer |-> "CatalogSerializer",
                methods |-> {RETRIEVE, DESTROY},
                lookup_request_field |-> "code",
                pagination_class |-> None]
          \* a service that implements Destroy only
          [] s = "PurgeService" ->
               [module |-> <<"catalog", "services">>,
                service_name |-> <<"Purge">>,
                serializer |-> "LooseSerializer",
                methods |-> {DESTROY},
                lookup_request_field |-> "note",
                pagination_class |-> None]]

get_app_name_from_service_class(service) == Head(Services[service].module)

is_special_protobuf_message(message_name) ==
    StartsWith(message_name, <<"google.protobuf">>)

(***************************************************************************)
(* List wrappers.                                                           *)
(***************************************************************************)
\* mutation: Meta.message_list_attr is not looked at
get_list_response_field_name_default(serializer) == DEFAULT_LIST_FIELD_NAME

get_list_response_field_name_from_serializer_instance(serializer) ==
    IF Serializers[serializer].message_list_attr # ""
    THEN Serializers[serializer].message_list_attr
    ELSE DEFAULT_LIST_FIELD_NAME

\* mutation: the count field is added whatever the pagination
ListResponseFields_always_count(service, list_response_field_name, child_response_message_name) ==
    << <<list_response_field_name, <<"repeated ">> \o child_response_message_name>>,
       <<"count", <<"int32">>>> >>

\* lines 445-453: the fields of a list wrapper
ListResponseFields(service, list_response_field_name, child_response_message_name) ==
    LET pagination == IF Services[service].pagination_class = None
                      THEN settings.DEFAULT_PAGINATION_CLASS # None
                      ELSE TRUE
    IN << <<list_response_field_name, <<"repeated ">> \o child_response_message_name>> >>
       \o (IF pagination THEN << <<"count", <<"int32">>>> >> ELSE <<>>)

\* lines 456-470: the name of a list wrapper
ListMessageName(base_name, message_name, is_request) ==
    IF message_name # None /\ message_name # <<>>
    THEN IF settings.SEPARATE_READ_WRITE_MODEL
         THEN LET suffix_len ==
                      IF is_request /\ EndsWith(message_name, REQUEST_SUFFIX)
                      THEN Len(REQUEST_SUFFIX)
                      ELSE IF ~is_request /\ EndsWith(message_name, RESPONSE_SUFFIX)
                           THEN Len(RESPONSE_SUFFIX)
                           ELSE 0
              IN SliceUntilMinus(message_name, suffix_len) \o <<"List">>
                 \o SliceFromMinus(message_name, suffix_len)
         ELSE message_name \o <<"List">>
    ELSE base_name \o <<"List">> \o RESPONSE_SUFFIX

register_list_message_of_serializer(reg, app_name, service, base_name, list_response_field_name, child_response_message_name, message_name, is_request) ==
    LET response_message_name == ListMessageName(base_name, message_name, is_request)
    IN Returned(SetMessage(reg, app_name, response_message_name,
                           ListResponseFields(service, list_response_field_name,
                                              child_response_message_name)),
                response_message_name)

(***************************************************************************)
(* Default registration (conventional kinds).                               *)
(***************************************************************************)
\* mutation: the test of line 748 is lost, the lookup of line 754 fails
get_lookup_field_unchecked(reg, serializer, service, given_field_name) ==
    LET field_name == IF given_field_name = ""
                      THEN Services[service].lookup_request_field
                      ELSE given_field_name
        fields == Serializers[serializer].fields
    IN IF ~Has(fields, field_name) THEN Raised(reg, "KeyError")
       ELSE Returned(reg, <<field_name,
                           type_mapping_get(Get(fields, field_name).cls,
                                            <<"lookup_field_type_not_found">>)>>)

get_lookup_field_from_serializer(reg, serializer, service, given_field_name) ==
    LET field_name == IF given_field_name = ""
                      THEN Services[service].lookup_request_field
                      ELSE given_field_name
        fields == Serializers[serializer].fields
    IN IF ~Has(fields, field_name)
       THEN RaisedWith(reg, RegisterServiceException,
                       <<field_name, Serializers[serializer].class_name>>)
       ELSE Returned(reg, <<field_name,
                           type_mapping_get(Get(fields, field_name).cls,
                                            <<"lookup_field_type_not_found">>)>>)

\* the serializer's name without request/response marker (append_type=False)
SerializerBaseName(serializer) ==
    get_message_name_from_field_or_serializer_instance(
        Serializers[serializer].class_name, FALSE, FALSE)

register_list_serializer_as_message(reg, app_name, service, serializer) ==
    LET serializer_name == SerializerBaseName(serializer)
        request_message_name == serializer_name \o <<"List">> \o REQUEST_SUFFIX
        Wrapped(child) ==
            IF child.exc # "" THEN child
            ELSE LET wrapper == register_list_message_of_serializer(
                         SetMessage(child.reg, app_name, request_message_name, <<>>),
                         app_name, service, serializer_name,
                         get_list_response_field_name_from_serializer_instance(serializer),
                         child.ret, None, FALSE)
                 IN Returned(wrapper.reg, <<request_message_name, wrapper.ret>>)
    IN Wrapped(register_serializer_as_message_if_not_exist(
                   reg, app_name, serializer, None, FALSE, 1))

register_retrieve_serializer_as_message(reg, app_name, service, serializer) ==
    LET retrieve_field == get_lookup_field_from_serializer(reg, serializer, service, "")
        request_message_name ==
            SerializerBaseName(serializer) \o <<"Retrieve">> \o REQUEST_SUFFIX
        Named(response) ==
            IF response.exc # "" THEN response
            ELSE Returned(response.reg, <<request_message_name, response.ret>>)
    IN IF retrieve_field.exc # "" THEN retrieve_field
       ELSE Named(register_serializer_as_message_if_not_exist(
                      SetMessage(reg, app_name, request_message_name,
                                 <<retrieve_field.ret>>),
                      app_name, serializer, None, FALSE, 1))

\* mutation: the empty response of Destroy is stored as a message
register_destroy_storing_empty(reg, app_name, service, serializer) ==
    LET destroy_field == get_lookup_field_from_serializer(reg, serializer, service, "")
        request_message_name ==
            SerializerBaseName(serializer) \o <<"Destroy">> \o REQUEST_SUFFIX
    IN IF destroy_field.exc # "" THEN destroy_field
       ELSE Returned(SetMessage(SetMessage(reg, app_name, request_message_name,
                                           <<destroy_field.ret>>),
                                app_name, <<"google.protobuf", ".Empty">>, <<>>),
                     <<request_message_name, <<"google.protobuf", ".Empty">>>>)

\* mutation: Destroy answers with the serializer's message, as Retrieve does
register_destroy_with_response(reg, app_name, service, serializer) ==
    LET destroy_field == get_lookup_field_from_serializer(reg, serializer, service, "")
        request_message_name ==
            SerializerBaseName(serializer) \o <<"Destroy">> \o REQUEST_SUFFIX
        Named(response) ==
            IF response.exc # "" THEN response
            ELSE Returned(response.reg, <<request_message_name, response.ret>>)
    IN IF destroy_field.exc # "" THEN destroy_field
       ELSE Named(register_serializer_as_message_if_not_exist(
                      SetMessage(reg, app_name, request_message_name,
                                 <<destroy_field.ret>>),
                      app_name, serializer, None, FALSE, 1))

register_destroy_serializer_as_message(reg, app_name, service, serializer) ==
    LET destroy_field == get_lookup_field_from_serializer(reg, serializer, service, "")
        request_message_name ==
            SerializerBaseName(serializer) \o <<"Destroy">> \o REQUEST_SUFFIX
    IN IF destroy_field.exc # "" THEN destroy_field
       ELSE Returned(SetMessage(reg, app_name, request_message_name,
                                <<destroy_field.ret>>),
                     <<request_message_name, <<"google.protobuf", ".Empty">>>>)

register_stream_serializer_as_message(reg, app_name, serializer) ==
    LET request_message_name ==
            SerializerBaseName(serializer) \o <<"Stream">> \o REQUEST_SUFFIX
        Named(response) ==
            IF response.exc # "" THEN response
            ELSE Returned(response.reg, <<request_message_name, response.ret>>)
    IN Named(register_serializer_as_message_if_not_exist(
                 SetMessage(reg, app_name, request_message_name, <<>>),
                 app_name, serializer, None, FALSE, 1))

\* get_serializer_instance_with_method: the class get_serializer_class() gives
get_serializer_instance_with_method(service, method) == Services[service].serializer

register_default_message_from_method(reg, app_name, method, service) ==
    LET serializer == get_serializer_instance_with_method(service, method) IN
    IF method \in get_methods_no_custom_messages THEN
        LET Both(request, response) ==
                IF response.exc # "" THEN response
                ELSE Returned(response.reg, <<request.ret, response.ret>>)
            WithRequest(request) ==
                IF request.exc # "" THEN request
                ELSE Both(request, register_serializer_as_message_if_not_exist(
                                       request.reg, app_name, serializer, None, FALSE, 1))
        IN WithRequest(register_serializer_as_message_if_not_exist(
                           reg, app_name, serializer, None, TRUE, 1))
    ELSE IF method = LIST THEN
        register_list_serializer_as_message(reg, app_name, service, serializer)
    ELSE IF method = RETRIEVE THEN
        register_retrieve_serializer_as_message(reg, app_name, service, serializer)
    ELSE IF method = DESTROY THEN
        register_destroy_serializer_as_message(reg, app_name, service, serializer)
    ELSE IF method = STREAM THEN
        register_stream_serializer_as_message(reg, app_name, serializer)
    ELSE RaisedWith(reg, RegisterServiceException, <<method, get_as_list>>)

MethodEntry(request_stream, request_message_name, response_stream, response_message_name) ==
    [request |-> [is_stream |-> request_stream, message |-> request_message_name],
     response |-> [is_stream |-> response_stream, message |-> response_message_name]]

\* registered_controllers[controller_name][method] = entry
SetMethod(reg, app_name, controller_name, method, entry) ==
    SetController(reg, app_name, controller_name,
                  Put(Get(registered_controllers(reg, app_name), controller_name),
                      method, entry))

\* mutation: the Stream kind streams its request as well
register_default_method_streaming_request(reg, app_name, controller_name, method, request_message_name, response_message_name) ==
    IF method \in get_methods_no_stream
    THEN Returned(SetMethod(reg, app_name, controller_name, method,
                            MethodEntry(FALSE, request_message_name,
                                        FALSE, response_message_name)), None)
    ELSE IF method = STREAM
         THEN Returned(SetMethod(reg, app_name, controller_name, method,
                                 MethodEntry(TRUE, request_message_name,
                                             TRUE, response_message_name)), None)
         ELSE RaisedWith(reg, RegisterServiceException, <<method, get_as_list>>)

register_default_method(reg, app_name, controller_name, method, request_message_name, response_message_name) ==
    IF method \in get_methods_no_stream
    THEN Returned(SetMethod(reg, app_name, controller_name, method,
                            MethodEntry(FALSE, request_message_name,
                                        FALSE, response_message_name)), None)
    ELSE IF method = STREAM
         THEN Returned(SetMethod(reg, app_name, controller_name, method,
                                 MethodEntry(FALSE, request_message_name,
                                             TRUE, response_message_name)), None)
         ELSE RaisedWith(reg, RegisterServiceException, <<method, get_as_list>>)

\* mutation: the test of lines 506 and 781 is lost, the app entry is created
\* anew by every call
EnsureApp_always_new(reg, app_name) == Put(reg, app_name, EmptyApp)

\* lines 506-510 and 781-785: the app entry is created when absent
EnsureApp(reg, app_name) ==
    IF Has(reg, app_name) THEN reg ELSE Put(reg, app_name, EmptyApp)

\* lines 527-528 and 867-870: the method table is created when absent
EnsureController(reg, app_name, controller_name) ==
    IF Has(registered_controllers(reg, app_name), controller_name) THEN reg
    ELSE SetController(reg, app_name, controller_name, <<>>)

ControllerName(service_name) == service_name \o <<"Controller">>

\* mutation: the test of line 535 is lost
MethodRegistered_never(reg, app_name, controller_name, method) == FALSE

\* line 535: the kind is already in the controller's method table
MethodRegistered(reg, app_name, controller_name, method) ==
    Has(Get(registered_controllers(reg, app_name), controller_name), method)

\* lines 530-548: the loop over KnowMethods.get_as_list(), from its i-th kind
\* on; done lists the kinds whose default messages were registered
RECURSIVE RegisterKnowMethods(_, _, _, _, _, _)
RegisterKnowMethods(reg, app_name, service, controller_name, i, done) ==
    IF i > Len(get_as_list)
    THEN [reg |-> reg, ret |-> None, exc |-> "", args |-> <<>>, done |-> done]
    ELSE LET method == get_as_list[i] IN
         IF method \notin Services[service].methods
         THEN RegisterKnowMethods(reg, app_name, service, controller_name, i + 1, done)
         ELSE IF MethodRegistered(reg, app_name, controller_name, method)
         THEN RegisterKnowMethods(reg, app_name, service, controller_name, i + 1, done)
         ELSE LET WithEntry(entry) ==
                      IF entry.exc # ""
                      THEN [reg |-> entry.reg, ret |-> None, exc |-> entry.exc,
                            args |-> entry.args,
                            done |-> Append(done, method)]
                      ELSE RegisterKnowMethods(entry.reg, app_name, service,
                                               controller_name, i + 1,
                                               Append(done, method))
                  WithNames(names) ==
                      IF names.exc # ""
                      THEN [reg |-> names.reg, ret |-> None, exc |-> names.exc,
                            args |-> names.args,
                            done |-> Append(done, method)]
                      ELSE WithEntry(register_default_method(
                                         names.reg, app_name, controller_name, method,
                                         names.ret[1], names.ret[2]))
              IN WithNames(register_default_message_from_method(
                               reg, app_name, method, service))

set_controller_and_messages(reg, app_name, service) ==
    LET controller_name == ControllerName(Services[service].service_name)
    IN RegisterKnowMethods(EnsureController(reg, app_name, controller_name),
                           app_name, service, controller_name, 1, <<>>)

register_service(reg, app_name, service) ==
    set_controller_and_messages(EnsureApp(reg, app_name), app_name, service)

(***************************************************************************)
(* Decorator registration (custom actions).  A request / response          *)
(* specification is a record: kind "list" (items, a sequence of            *)
(* <<name, type>>), "str" (str), "serializer" (ser) or "None".             *)
(***************************************************************************)
LiteralSpec(items) == [kind |-> "list", items |-> items, str |-> <<>>, ser |-> ""]

StrSpec(str) == [kind |-> "str", items |-> <<>>, str |-> str, ser |-> ""]

SerializerSpec(ser) == [kind |-> "serializer", items |-> <<>>, str |-> <<>>, ser |-> ser]

NoneSpec == [kind |-> "None", items |-> <<>>, str |-> <<>>, ser |-> ""]

\* mutation: the test of line 882 is lost, an empty list is registered as
\* any other literal list
register_message_without_empty_case(reg, app_name, service_name, function_name, message, is_request, given_name) ==
    IF message.kind = "list" THEN
        LET message_name ==
                IF given_name = None
                THEN service_name \o <<function_name>>
                     \o (IF is_request THEN REQUEST_SUFFIX ELSE RESPONSE_SUFFIX)
                ELSE given_name
        IN Returned(SetMessage(reg, app_name, message_name, message.items),
                    <<message_name, DEFAULT_LIST_FIELD_NAME>>)
    ELSE IF message.kind = "str"
    THEN Returned(reg, <<message.str, DEFAULT_LIST_FIELD_NAME>>)
    ELSE IF message.kind = "serializer" THEN
        LET Named(r) ==
                IF r.exc # "" THEN r
                ELSE Returned(r.reg,
                         <<r.ret,
                           get_list_response_field_name_from_serializer_instance(message.ser)>>)
        IN Named(register_serializer_as_message_if_not_exist(
                     reg, app_name, message.ser, given_name, is_request, 1))
    ELSE RaisedWith(reg, RegisterServiceException,
                    <<IF is_request THEN REQUEST_SUFFIX ELSE RESPONSE_SUFFIX,
                      function_name, app_name>>)

\* mutation: a specification of another kind is taken as the empty message
register_message_none_as_empty(reg, app_name, service_name, function_name, message, is_request, given_name) ==
    IF message.kind = "list" THEN
        IF Len(message.items) = 0
        THEN Returned(reg, <<<<"google.protobuf", ".Empty">>, DEFAULT_LIST_FIELD_NAME>>)
        ELSE LET message_name ==
                     IF given_name = None
                     THEN service_name \o <<function_name>>
                          \o (IF is_request THEN REQUEST_SUFFIX ELSE RESPONSE_SUFFIX)
                     ELSE given_name
             IN Returned(SetMessage(reg, app_name, message_name, message.items),
                         <<message_name, DEFAULT_LIST_FIELD_NAME>>)
    ELSE IF message.kind = "str"
    THEN Returned(reg, <<message.str, DEFAULT_LIST_FIELD_NAME>>)
    ELSE IF message.kind = "serializer" THEN
        LET Named(r) ==
                IF r.exc # "" THEN r
                ELSE Returned(r.reg,
                         <<r.ret,
                           get_list_response_field_name_from_serializer_instance(message.ser)>>)
        IN Named(register_serializer_as_message_if_not_exist(
                     reg, app_name, message.ser, given_name, is_request, 1))
    ELSE Returned(reg, <<<<"google.protobuf", ".Empty">>, DEFAULT_LIST_FIELD_NAME>>)

\* returns <<message name, list field name>>
register_message_for_custom_action(reg, app_name, service_name, function_name, message, is_request, given_name) ==
    IF message.kind = "list" THEN
        IF Len(message.items) = 0
        THEN Returned(reg, <<<<"google.protobuf", ".Empty">>, DEFAULT_LIST_FIELD_NAME>>)
        ELSE LET message_name ==
                     IF given_name = None
                     THEN service_name \o <<function_name>>
                          \o (IF is_request THEN REQUEST_SUFFIX ELSE RESPONSE_SUFFIX)
                     ELSE given_name
             IN Returned(SetMessage(reg, app_name, message_name, message.items),
                         <<message_name, DEFAULT_LIST_FIELD_NAME>>)
    ELSE IF message.kind = "str"
    THEN Returned(reg, <<message.str, DEFAULT_LIST_FIELD_NAME>>)
    ELSE IF message.kind = "serializer" THEN
        LET Named(r) ==
                IF r.exc # "" THEN r
                ELSE Returned(r.reg,
                         <<r.ret,
                           get_list_response_field_name_from_serializer_instance(message.ser)>>)
        IN Named(register_serializer_as_message_if_not_exist(
                     reg, app_name, message.ser, given_name, is_request, 1))
    ELSE RaisedWith(reg, RegisterServiceException,
                    <<IF is_request THEN REQUEST_SUFFIX ELSE RESPONSE_SUFFIX,
                      function_name, app_name>>)

get_base_name_for_list_message(service_name, function_name, message_name, is_request) ==
    LET suffix == IF is_request THEN REQUEST_SUFFIX ELSE RESPONSE_SUFFIX
        list_suffix == <<"List">> \o suffix
    IN IF is_special_protobuf_message(message_name)
       THEN IF function_name = LIST THEN service_name
            ELSE service_name \o <<function_name>>
       ELSE IF function_name = LIST /\ Contains(message_name, list_suffix)
            THEN rreplace(message_name, list_suffix)
            ELSE rreplace(message_name, suffix)

\* mutation: an entry already under the action name is kept (setdefault)
register_method_keeping_first(reg, app_name, service_name, function_name, request_message_name, response_message_name, request_stream, response_stream) ==
    LET controller_name == ControllerName(service_name)
        ensured == EnsureController(reg, app_name, controller_name)
    IN IF MethodRegistered(ensured, app_name, controller_name, function_name)
       THEN ensured
       ELSE SetMethod(ensured, app_name, controller_name, function_name,
                      MethodEntry(request_stream, request_message_name,
                                  response_stream, response_message_name))

register_method_for_custom_action(reg, app_name, service_name, function_name, request_message_name, response_message_name, request_stream, response_stream) ==
    LET controller_name == ControllerName(service_name)
    IN SetMethod(EnsureController(reg, app_name, controller_name), app_name,
                 controller_name, function_name,
                 MethodEntry(request_stream, request_message_name,
                             response_stream, response_message_name))

\* lines 790-813 (is_request) and 815-841: one side of a custom action
CustomActionSide(reg, app_name, service, function_name, message, given_name, use_list, is_request) ==
    LET service_name == Services[service].service_name
        Listed(m) ==
            IF m.exc # "" \/ ~use_list
            THEN [m EXCEPT !.ret = IF m.exc = "" THEN @[1] ELSE @]
            ELSE register_list_message_of_serializer(
                     m.reg, app_name, service,
                     get_base_name_for_list_message(service_name, function_name,
                                                    m.ret[1], is_request),
                     m.ret[2], m.ret[1], given_name, is_request)
    IN Listed(register_message_for_custom_action(
                  reg, app_name, service_name, function_name, message, is_request,
                  given_name))

\* a is the record of the call's arguments
register_custom_action(reg, a) ==
    LET app_name == get_app_name_from_service_class(a.service)
        service_name == Services[a.service].service_name
        Both(request, response) ==
            IF response.exc # "" THEN response
            ELSE Returned(register_method_for_custom_action(
                              response.reg, app_name, service_name,
                              a.function_name, request.ret,
                              IF a.response_name # None /\ a.response_name # <<>>
                              THEN a.response_name ELSE response.ret,
                              a.request_stream, a.response_stream),
                          None)
        WithRequest(request) ==
            IF request.exc # "" THEN request
            ELSE Both(request, CustomActionSide(request.reg, app_name, a.service,
                                                a.function_name, a.response,
                                                a.response_name, a.use_response_list,
                                                FALSE))
    IN WithRequest(CustomActionSide(EnsureApp(reg, app_name), app_name, a.service,
                                    a.function_name, a.request, a.request_name,
                                    a.use_request_list, TRUE))

(***************************************************************************)
(* The calls a project makes.                                               *)
(***************************************************************************)
\* register_service(app_name, service_class): the services under their own
\* app, and one of them under another app as well
ServiceRegistrations ==
    {<<get_app_name_from_service_class(s), s>> : s \in ServiceNames}
    \cup {<<"library", "WidgetLookupService">>}

\* direct calls of register_serializer_as_message_if_not_exist(app_name, serializer)
SerializerRegistrations ==
    {<<"shop", "WidgetSerializer">>, <<"shop", "WidgetProtoSerializer">>,
     <<"library", "AuthorProtoSerializer">>, <<"library", "NodeSerializer">>,
     <<"library", "ReportSerializer">>, <<"library", "WidgetSerializer">>}

Action(service, function_name, request, response) ==
    [service |-> service, function_name |-> function_name,
     request |-> request, response |-> response,
     request_name |-> None, response_name |-> None,
     request_stream |-> FALSE, response_stream |-> FALSE,
     use_request_list |-> FALSE, use_response_list |-> FALSE]

Empty == <<"google.protobuf", ".Empty">>

\* the register_custom_action calls (the grpc_action declarations)
CustomActions ==
    {  \* a custom declaration under a conventional kind name
       [Action("WidgetService", LIST, StrSpec(Empty),
               SerializerSpec("WidgetSerializer"))
            EXCEPT !.use_response_list = TRUE],
       [Action("WidgetService", RETRIEVE,
               LiteralSpec(<< <<"slug", <<"string">>>> >>),
               SerializerSpec("WidgetProtoSerializer"))
            EXCEPT !.response_stream = TRUE],
       \* the same action name declared in several ways
       Action("WidgetService", "Export", LiteralSpec(<<>>),
              StrSpec(<<"google.protobuf", ".Struct">>)),
       [Action("WidgetService", "Export",
               LiteralSpec(<< <<"format", <<"string">>>> >>),
               SerializerSpec("WidgetSerializer"))
            EXCEPT !.request_stream = TRUE, !.use_response_list = TRUE,
                   !.response_name = <<"Widget", "Export">>],
       [Action("WidgetService", "Export", SerializerSpec("WidgetSerializer"),
               LiteralSpec(<< <<"url", <<"string">>>> >>))
            EXCEPT !.use_request_list = TRUE, !.response_stream = TRUE,
                   !.response_name = <<"Widget", "Response">>],
       \* a specification that is no list, string or serializer class
       Action("WidgetService", "Export", SerializerSpec("WidgetSerializer"), NoneSpec),
       \* a serializer whose registration fails
       Action("LibraryService", "Rank", SerializerSpec("BookProtoSerializer"),
              SerializerSpec("ReportSerializer")) }

NoAction == Action("", "", NoneSpec, NoneSpec)

(***************************************************************************)
(* State.                                                                   *)
(*   instances  RegistrySingleton._instances: 0 when empty, else the       *)
(*              object stored under the class                               *)
(*   heap       the registry objects constructed so far: heap[o] is        *)
(*              object o's registered_app                                   *)
(*   settings   grpc_settings                                               *)
(*   last       the last call made and its outcome; again tells that the   *)
(*              call before it was the same call and returned               *)
(*   calls      number of registration calls made                           *)
(*   handle     the object the latest RegistrySingleton() returned (0 when *)
(*              none), and whether clean_all was called since               *)
(***************************************************************************)
Call(op, obj) ==
    [op |-> op, obj |-> obj, app_name |-> "", service |-> "", serializer |-> "",
     is_request |-> FALSE, action |-> NoAction, services |-> <<>>, exc |-> "",
     ret |-> None, done |-> <<>>, again |-> FALSE,
     class_name |-> <<>>, append_type |-> TRUE, args |-> <<>>,
     function_name |-> "", message_name |-> <<>>]

\* c repeats the call p
SameCall(p, c) ==
    /\ p.op = c.op /\ p.obj = c.obj /\ p.app_name = c.app_name
    /\ p.service = c.service /\ p.serializer = c.serializer
    /\ p.is_request = c.is_request /\ p.action = c.action
    /\ p.services = c.services

Stamp(c) == [c EXCEPT !.again = SameCall(last, c) /\ last.exc = ""]

Init ==
    /\ instances = 0
    /\ heap = <<>>
    /\ settings \in [SEPARATE_READ_WRITE_MODEL : BOOLEAN,
                     DEFAULT_PAGINATION_CLASS : {None, PageNumberPagination}]
    /\ last = Call("import", 0)
    /\ calls = 0
    /\ handle = [obj |-> 0, cleaned |-> FALSE]

\* mutation: every call constructs a new object
SingletonCall_always_new(inst, objects) ==
    [instances |-> Len(objects) + 1, heap |-> Append(objects, <<>>),
     ret |-> Len(objects) + 1]

\* SingletonMeta.__call__ (and RegistrySingleton.__init__ for a new object)
SingletonCall(inst, objects) ==
    IF inst = 0
    THEN [instances |-> Len(objects) + 1, heap |-> Append(objects, <<>>),
          ret |-> Len(objects) + 1]
    ELSE [instances |-> inst, heap |-> objects, ret |-> inst]

\* RegistrySingleton()
Construct ==
    /\ instances = 0 => Len(heap) < MaxObjects
    /\ LET r == SingletonCall(instances, heap)
       IN /\ instances' = r.instances
          /\ heap' = r.heap
          /\ last' = Call("RegistrySingleton", r.ret)
          /\ handle' = [obj |-> r.ret, cleaned |-> FALSE]
    /\ UNCHANGED <<settings, calls>>

\* mutation: clean_all leaves _instances as it is
clean_all_keeps(inst) == inst

\* RegistrySingleton.clean_all(): the value _instances is set to
clean_all(inst) == 0

CleanAll ==
    /\ instances' = clean_all(instances)
    /\ last' = Call("clean_all", 0)
    /\ handle' = [handle EXCEPT !.cleaned = TRUE]
    /\ UNCHANGED <<heap, settings, calls>>

\* registry.register_service(app_name, service_class) on object o
RegisterService(o, app_name, service) ==
    /\ calls < MaxCalls
    /\ LET Effect(r) ==
               /\ heap' = [heap EXCEPT ![o] = r.reg]
               /\ last' = Stamp([Call("register_service", o) EXCEPT
                              !.app_name = app_name, !.service = service,
                              !.exc = r.exc, !.args = r.args,
                              !.done = r.done])
       IN Effect(register_service(heap[o], app_name, service))
    /\ calls' = calls + 1
    /\ UNCHANGED <<instances, settings, handle>>

\* registry.register_custom_action(service_class, function_name, ...) on object o
RegisterCustomAction(o, a) ==
    /\ calls < MaxCalls
    /\ LET Effect(r) ==
               /\ heap' = [heap EXCEPT ![o] = r.reg]
               /\ last' = Stamp([Call("register_custom_action", o) EXCEPT
                              !.app_name = get_app_name_from_service_class(a.service),
                              !.service = a.service, !.action = a, !.exc = r.exc,
                              !.args = r.args])
       IN Effect(register_custom_action(heap[o], a))
    /\ calls' = calls + 1
    /\ UNCHANGED <<instances, settings, handle>>

\* registry.register_serializer_as_message_if_not_exist(app_name, serializer(),
\* is_request=is_request) on object o
RegisterSerializer(o, app_name, serializer, is_request) ==
    /\ calls < MaxCalls
    /\ LET Effect(r) ==
               /\ heap' = [heap EXCEPT ![o] = r.reg]
               /\ last' = Stamp([Call("register_serializer_as_message_if_not_exist", o) EXCEPT
                              !.app_name = app_name, !.serializer = serializer,
                              !.is_request = is_request, !.exc = r.exc, !.args = r.args,
                              !.ret = r.ret])
       IN Effect(register_serializer_as_message_if_not_exist(
                     heap[o], app_name, serializer, None, is_request, 1))
    /\ calls' = calls + 1
    /\ UNCHANGED <<instances, settings, handle>>

\* One registry: the project constructs the registry and declares its
\* services and custom actions.
Next ==
    \/ Construct
    \/ \E o \in DOMAIN heap, r \in ServiceRegistrations :
           RegisterService(o, r[1], r[2])
    \/ \E o \in DOMAIN heap, a \in CustomActions : RegisterCustomAction(o, a)

Spec == Init /\ [][Next]_vars

\* the register_service calls that precede direct calls of the registrar
RegistrarServices ==
    {<<"shop", "WidgetService">>, <<"library", "LibraryService">>,
     <<"library", "ReportService">>}

\* The message registrar called directly, on a registry that holds apps.
RegistrarNext ==
    \/ Construct
    \/ \E o \in DOMAIN heap, r \in RegistrarServices :
           RegisterService(o, r[1], r[2])
    \/ \E o \in DOMAIN heap, r \in SerializerRegistrations, is_request \in BOOLEAN :
           RegisterSerializer(o, r[1], r[2], is_request)

RegistrarSpec == Init /\ [][RegistrarNext]_vars

(***************************************************************************)
(* The generation pass: the driver that produces the proto files declares  *)
(* the services of the project anew on every pass, clear-then-refill.      *)
(***************************************************************************)
\* the services a pass declares, in order
PassServices ==
    LET S == {"WidgetService", "LibraryService"}
    IN {<<s>> : s \in S} \cup {p \in S \X S : p[1] # p[2]}
       \cup {<<"WidgetBrokenService">>}

\* register_service for the services from the i-th on, until one raises
RECURSIVE RegisterAll(_, _, _)
RegisterAll(reg, services, i) ==
    IF i > Len(services) THEN Returned(reg, None)
    ELSE LET Rest(r) == IF r.exc # "" THEN RaisedWith(r.reg, r.exc, r.args)
                        ELSE RegisterAll(r.reg, services, i + 1)
         IN Rest(register_service(
                     reg, get_app_name_from_service_class(services[i]), services[i]))

\* RegistrySingleton.clean_all(); registry = RegistrySingleton();
\* registry.register_service(app, service) for each declared service
GenerationPass(services) ==
    /\ calls < MaxCalls
    /\ Len(heap) < MaxObjects
    /\ LET s == SingletonCall(clean_all(instances), heap)
           Effect(r) ==
               /\ instances' = s.instances
               /\ heap' = [s.heap EXCEPT ![s.ret] = r.reg]
               /\ last' = Stamp([Call("generation_pass", s.ret) EXCEPT
                                     !.services = services, !.exc = r.exc,
                                     !.args = r.args])
               /\ handle' = [obj |-> s.ret, cleaned |-> FALSE]
       IN Effect(RegisterAll(s.heap[s.ret], services, 1))
    /\ calls' = calls + 1
    /\ UNCHANGED settings

\* the register_service calls made outside a pass
LifecycleRegistrations ==
    {<<"shop", "WidgetService">>, <<"shop", "WidgetLookupService">>}

\* The registry's life cycle: construction, clean_all and generation passes,
\* with services registered through any object constructed so far.
LifecycleNext ==
    \/ Construct
    \/ CleanAll
    \/ \E services \in PassServices : GenerationPass(services)
    \/ \E o \in DOMAIN heap, r \in LifecycleRegistrations :
           RegisterService(o, r[1], r[2])

LifecycleSpec == Init /\ [][LifecycleNext]_vars

(***************************************************************************)
(* Declared actions: grpc_action declarations in every form of request and *)
(* response specification, with and without an explicit message name and   *)
(* the list wrapper.                                                        *)
(***************************************************************************)
\* the forms of a request / response specification
MessageSpecs ==
    {LiteralSpec(<<>>), LiteralSpec(<< <<"format", <<"string">>>> >>),
     StrSpec(<<"google.protobuf", ".Struct">>), SerializerSpec("WidgetSerializer")}

\* declarations of WidgetService (pagination_class set) that vary the request
RequestDeclarations ==
    {[Action("WidgetService", "Export", request, StrSpec(Empty))
        EXCEPT !.request_name = request_name, !.use_request_list = use_request_list] :
     request \in MessageSpecs, request_name \in {None, <<"Export", "Query">>},
     use_request_list \in BOOLEAN}

\* declarations of LibraryService (no pagination_class) that vary the response
ResponseDeclarations ==
    {[Action("LibraryService", "Export", StrSpec(Empty), response)
        EXCEPT !.response_name = response_name, !.use_response_list = use_response_list] :
     response \in MessageSpecs, response_name \in {None, <<"Export", "Response">>},
     use_response_list \in BOOLEAN}

\* declarations that vary the stream flags
StreamDeclarations ==
    {[Action("LibraryService", "Watch", StrSpec(Empty), StrSpec(Empty))
        EXCEPT !.request_stream = request_stream, !.response_stream = response_stream] :
     request_stream \in BOOLEAN, response_stream \in BOOLEAN}

\* declarations whose request or response is no list, string or serializer
\* class (None is the default of both)
UnsupportedDeclarations ==
    {Action("WidgetService", "Export", NoneSpec, StrSpec(Empty)),
     Action("LibraryService", "Export", StrSpec(Empty), NoneSpec),
     Action("LibraryService", "Watch", NoneSpec, NoneSpec)}

DeclaredActions ==
    RequestDeclarations \cup ResponseDeclarations \cup StreamDeclarations
    \cup UnsupportedDeclarations

\* the register_service calls made next to the declarations
DeclaredServices == {<<"library", "LibraryService">>}

ActionNext ==
    \/ Construct
    \/ \E o \in DOMAIN heap, r \in DeclaredServices :
           calls < MaxDeclarations /\ RegisterService(o, r[1], r[2])
    \/ \E o \in DOMAIN heap, a \in DeclaredActions :
           calls < MaxDeclarations /\ RegisterCustomAction(o, a)

ActionSpec == Init /\ [][ActionNext]_vars

(***************************************************************************)
(* Lookup fields: services whose lookup request field the serializer has   *)
(* or has not, the Retrieve kind declared by hand or left to the default.  *)
(***************************************************************************)
LookupRegistrations ==
    {<<"shop", "WidgetService">>, <<"shop", "WidgetLookupService">>,
     <<"shop", "WidgetBrokenService">>}

\* Retrieve declared with grpc_action, so that the default one is skipped
LookupDeclarations ==
    {Action("WidgetBrokenService", RETRIEVE,
            LiteralSpec(<< <<"slug", <<"string">>>> >>), StrSpec(Empty))}

LookupNext ==
    \/ Construct
    \/ \E o \in DOMAIN heap, r \in LookupRegistrations :
           RegisterService(o, r[1], r[2])
    \/ \E o \in DOMAIN heap, a \in LookupDeclarations : RegisterCustomAction(o, a)

LookupSpec == Init /\ [][LookupNext]_vars

(***************************************************************************)
(* List wrappers of the List kind declared by hand: the wrapper's name is  *)
(* derived from the name of the message it repeats.                        *)
(***************************************************************************)
\* declarations of the List kind whose request or response is a literal
\* list or a serializer, with and without a list wrapper
WrapperDeclarations ==
    {[Action("LibraryService", LIST, StrSpec(Empty), response)
        EXCEPT !.use_response_list = use_response_list] :
     response \in {LiteralSpec(<< <<"title", <<"string">>>> >>),
                   SerializerSpec("WidgetSerializer")},
     use_response_list \in BOOLEAN}
    \cup {[Action("ReportService", LIST, LiteralSpec(<< <<"page", <<"int32">>>> >>),
                  StrSpec(Empty))
             EXCEPT !.use_request_list = TRUE]}

\* the register_service calls made next to these declarations
WrapperServices == {<<"library", "LibraryService">>, <<"library", "ReportService">>}

WrapperNext ==
    \/ Construct
    \/ \E o \in DOMAIN heap, r \in WrapperServices :
           RegisterService(o, r[1], r[2])
    \/ \E o \in DOMAIN heap, a \in WrapperDeclarations : RegisterCustomAction(o, a)

WrapperSpec == Init /\ [][WrapperNext]_vars

(***************************************************************************)
(* The naming rule on its own: called with any class name.                 *)
(***************************************************************************)
\* the words class names are made of
Words == {"Widget", "Proto", "Serializer"}

\* serializer_instance.__class__.__name__
ClassNames == UNION {[1..n -> Words] : n \in 1..MaxWords}

\* get_message_name_from_field_or_serializer_instance(serializer_instance,
\* is_request, append_type) for an instance of a class named class_name
GetMessageName(class_name, is_request, append_type) ==
    /\ calls < MaxCalls
    /\ last' = [Call("get_message_name_from_field_or_serializer_instance", instances)
                   EXCEPT !.class_name = class_name, !.is_request = is_request,
                          !.append_type = append_type,
                          !.ret = get_message_name_from_field_or_serializer_instance(
                                      class_name, is_request, append_type)]
    /\ calls' = calls + 1
    /\ UNCHANGED <<instances, heap, settings, handle>>

\* the words message names are made of; Marker stands for the marker of the
\* side the name is derived for (Request or Response)
MessageWords == {"Widget", "List", "Marker"}

\* message names handed to get_base_name_for_list_message with is_request
MessageNameInputs(is_request) ==
    {[i \in DOMAIN w |->
         IF w[i] = "Marker"
         THEN (IF is_request THEN REQUEST_SUFFIX ELSE RESPONSE_SUFFIX)[1]
         ELSE w[i]] : w \in UNION {[1..n -> MessageWords] : n \in 1..MaxWords}}

\* get_base_name_for_list_message(service_name, function_name, message_name,
\* is_request) for the service named Widget
GetBaseName(function_name, message_name, is_request) ==
    /\ calls < MaxCalls
    /\ last' = [Call("get_base_name_for_list_message", instances)
                   EXCEPT !.function_name = function_name,
                          !.message_name = message_name, !.is_request = is_request,
                          !.ret = get_base_name_for_list_message(
                                      <<"Widget">>, function_name, message_name,
                                      is_request)]
    /\ calls' = calls + 1
    /\ UNCHANGED <<instances, heap, settings, handle>>

NamingNext ==
    \/ \E class_name \in ClassNames, is_request \in BOOLEAN, append_type \in BOOLEAN :
           GetMessageName(class_name, is_request, append_type)
    \/ \E function_name \in {LIST, "Export"}, is_request \in BOOLEAN :
           \E message_name \in MessageNameInputs(is_request) :
               GetBaseName(function_name, message_name, is_request)

NamingSpec == Init /\ [][NamingNext]_vars

(***************************************************************************)
(* The field resolver: the catalog app, whose serializers hold fields of   *)
(* classes outside type_mapping.                                            *)
(***************************************************************************)
ResolverServices == {<<"catalog", s>> : s \in CatalogServiceNames}

ResolverSerializers ==
    {<<"catalog", "CatalogSerializer">>, <<"catalog", "GaugeSerializer">>,
     <<"catalog", "LooseSerializer">>, <<"catalog", "ShelfSerializer">>,
     <<"catalog", "PinSerializer">>}

ResolverNext ==
    \/ Construct
    \/ \E o \in DOMAIN heap, r \in ResolverServices :
           RegisterService(o, r[1], r[2])
    \/ \E o \in DOMAIN heap, r \in ResolverSerializers, is_request \in BOOLEAN :
           RegisterSerializer(o, r[1], r[2], is_request)

ResolverSpec == Init /\ [][ResolverNext]_vars

(***************************************************************************)
(* Properties.                                                              *)
(***************************************************************************)
\* the step is a call of op (a step that only stutters is none)
Called(op) == last'.op = op /\ calls' = calls + 1

\* every message of registry old is in registry new with the same field list
MessagesKept(old, new) ==
    \A app_name \in Keys(old) :
        /\ Has(new, app_name)
        /\ \A m \in Keys(registered_messages(old, app_name)) :
               /\ Has(registered_messages(new, app_name), m)
               /\ Get(registered_messages(new, app_name), m)
                      = Get(registered_messages(old, app_name), m)

\* every method entry of registry old is in registry new, unchanged
MethodsKept(old, new) ==
    \A app_name \in Keys(old) :
        /\ Has(new, app_name)
        /\ \A c \in Keys(registered_controllers(old, app_name)) :
               /\ Has(registered_controllers(new, app_name), c)
               /\ \A k \in Keys(Get(registered_controllers(old, app_name), c)) :
                      /\ Has(Get(registered_controllers(new, app_name), c), k)
                      /\ Get(Get(registered_controllers(new, app_name), c), k)
                             = Get(Get(registered_controllers(old, app_name), c), k)

\* the name register_serializer_as_message_if_not_exist gives serializer's message
MessageNameOf(serializer, is_request) ==
    get_message_name_from_field_or_serializer_instance(
        Serializers[serializer].class_name, is_request, TRUE)

\* C1: once a message name is mapped to a field list, no later call replaces
\* the list stored under that name with a different one.
C1_NoOverwrite ==
    [][\A o \in DOMAIN heap : MessagesKept(heap[o], heap'[o])]_vars

\* C2: register_serializer_as_message_if_not_exist called a second time with
\* the same app, serializer and is_request returns the same name as the first
\* call and leaves the registry as the first call left it.
C2_RegisterTwice ==
    [][(Called("register_serializer_as_message_if_not_exist") /\ last'.again)
         => /\ last'.exc = ""
            /\ last'.ret = last.ret
            /\ heap' = heap]_vars

C2_Witness ==
    /\ last.op = "register_serializer_as_message_if_not_exist"
    /\ last.again
    /\ last.exc = ""
    /\ last.serializer = "WidgetSerializer"
    /\ MessageRegistered(heap[last.obj], last.app_name, last.ret)
    /\ Get(registered_messages(heap[last.obj], last.app_name), last.ret) # <<>>

\* the request message only the default registration of kind creates
KindRequestName(service, kind) ==
    SerializerBaseName(Services[service].serializer) \o <<kind>> \o REQUEST_SUFFIX

InSeq(x, seq) == \E i \in DOMAIN seq : seq[i] = x

\* C3: a method entry already in the controller under a conventional kind
\* name is left unchanged by register_service for that app and service, and
\* the default messages of that kind are not registered.
C3_CustomTakesPrecedence ==
    [][Called("register_service") =>
         LET o == last'.obj
             app_name == last'.app_name
             service == last'.service
             c == ControllerName(Services[service].service_name)
         IN (Has(heap[o], app_name)
             /\ Has(registered_controllers(heap[o], app_name), c)) =>
              \A k \in Keys(Get(registered_controllers(heap[o], app_name), c)) :
                  InSeq(k, get_as_list) =>
                    /\ Get(Get(registered_controllers(heap'[o], app_name), c), k)
                           = Get(Get(registered_controllers(heap[o], app_name), c), k)
                    /\ ~InSeq(k, last'.done)
                    /\ (k \in {LIST, RETRIEVE, DESTROY, STREAM}
                        /\ ~MessageRegistered(heap[o], app_name,
                                              KindRequestName(service, k)))
                         => ~MessageRegistered(heap'[o], app_name,
                                               KindRequestName(service, k))]_vars

C3_Witness ==
    /\ last.op = "register_service"
    /\ last.service = "WidgetService"
    /\ last.app_name = "shop"
    /\ last.exc = ""
    /\ InSeq(CREATE, last.done)
    /\ ~InSeq(LIST, last.done)
    /\ Get(Get(registered_controllers(heap[last.obj], "shop"),
               <<"Widget", "Controller">>), LIST).request.message = Empty

\* the message name one side of the custom action a resolves to
ExpectedMessageName(a, is_request) ==
    LET message == IF is_request THEN a.request ELSE a.response
        given == IF is_request THEN a.request_name ELSE a.response_name
        use_list == IF is_request THEN a.use_request_list ELSE a.use_response_list
        service_name == Services[a.service].service_name
        suffix == IF is_request THEN REQUEST_SUFFIX ELSE RESPONSE_SUFFIX
        own == CASE message.kind = "str" -> message.str
                 [] message.kind = "list" /\ message.items = <<>> -> Empty
                 [] message.kind = "list" /\ message.items # <<>> ->
                        IF given = None
                        THEN service_name \o <<a.function_name>> \o suffix
                        ELSE given
                 [] OTHER ->
                        IF given = None THEN MessageNameOf(message.ser, is_request)
                        ELSE given
    IN IF ~is_request /\ given # None THEN given
       ELSE IF use_list
            THEN ListMessageName(
                     get_base_name_for_list_message(service_name, a.function_name,
                                                    own, is_request),
                     given, is_request)
            ELSE own

\* C4: a register_custom_action call for an action name the controller
\* already holds leaves exactly one entry under that name, with the stream
\* flags and the messages of this call.
C4_LastWriteWins ==
    [][(Called("register_custom_action") /\ last'.exc = "") =>
         LET o == last'.obj
             a == last'.action
             app_name == last'.app_name
             c == ControllerName(Services[a.service].service_name)
             methods == Get(registered_controllers(heap'[o], app_name), c)
         IN (/\ Has(heap[o], app_name)
             /\ Has(registered_controllers(heap[o], app_name), c)
             /\ Has(Get(registered_controllers(heap[o], app_name), c),
                    a.function_name)) =>
              /\ Cardinality({i \in DOMAIN methods : methods[i][1] = a.function_name})
                     = 1
              /\ Get(methods, a.function_name)
                     = MethodEntry(a.request_stream, ExpectedMessageName(a, TRUE),
                                   a.response_stream, ExpectedMessageName(a, FALSE))]_vars

\* the second declaration of Export: the first one left WidgetExportRequest
C4_Witness ==
    /\ last.op = "register_custom_action"
    /\ last.exc = ""
    /\ calls = 2
    /\ last.action.function_name = "Export"
    /\ last.action.request = LiteralSpec(<<>>)
    /\ MessageRegistered(heap[last.obj], "shop", <<"Widget", "Export", "Request">>)
    /\ Get(Get(registered_controllers(heap[last.obj], "shop"),
               <<"Widget", "Controller">>), "Export").request.message = Empty

\* C5: when register_serializer_as_message_if_not_exist raises a registration
\* error, no entry is left under the message name it was registering.
C5_AtomicRegistration ==
    [][(Called("register_serializer_as_message_if_not_exist")
        /\ last'.exc = RegisterServiceException) =>
         LET o == last'.obj
             m == MessageNameOf(last'.serializer, last'.is_request)
         IN ~MessageRegistered(heap[o], last'.app_name, m)
              => ~MessageRegistered(heap'[o], last'.app_name, m)]_vars

\* C6: when register_service or register_custom_action raises a registration
\* error, every app, method entry and message field list the registry held
\* before the call is still there with the same content.
C6_FailureKeepsRegistry ==
    [][((Called("register_service") \/ Called("register_custom_action"))
        /\ last'.exc = RegisterServiceException) =>
         /\ MessagesKept(heap[last'.obj], heap'[last'.obj])
         /\ MethodsKept(heap[last'.obj], heap'[last'.obj])]_vars

\* the serializers reached from serializer through nested-serializer fields
Cycle(serializer) ==
    CASE serializer \in {"AuthorProtoSerializer", "BookProtoSerializer"} ->
             {"AuthorProtoSerializer", "BookProtoSerializer"}
      [] serializer = "NodeSerializer" -> {"NodeSerializer"}
      [] OTHER -> {}

\* the number of fields of serializer a message in mode is_request keeps
RetainedFields(serializer, is_request) ==
    LET fields == Serializers[serializer].fields
        pk_name == IF Serializers[serializer].meta_model # ""
                   THEN get_model_pk(Serializers[serializer].meta_model).name
                   ELSE ""
    IN Cardinality({i \in DOMAIN fields :
                      ~FieldSkipped(fields[i][1], fields[i][2], pk_name, is_request)})

\* C7: no registration ends in a RecursionError, and registering a
\* serializer whose nested serializers form a cycle returns its message name
\* with every message of the cycle in the table once, its field list holding
\* each retained field once.
C7_CycleTerminates ==
    /\ last.exc # "RecursionError"
    /\ (/\ last.op = "register_serializer_as_message_if_not_exist"
        /\ Cycle(last.serializer) # {}
        /\ Has(heap[last.obj], last.app_name)) =>
         LET messages == registered_messages(heap[last.obj], last.app_name)
         IN /\ last.exc = ""
            /\ last.ret = MessageNameOf(last.serializer, last.is_request)
            /\ \A s \in Cycle(last.serializer) :
                   LET m == MessageNameOf(s, last.is_request)
                   IN /\ Cardinality({i \in DOMAIN messages : messages[i][1] = m}) = 1
                      /\ Len(Get(messages, m)) = RetainedFields(s, last.is_request)

C7_Witness ==
    /\ last.op = "register_serializer_as_message_if_not_exist"
    /\ last.serializer = "NodeSerializer"
    /\ last.exc = ""
    /\ ~last.again
    /\ ~last.is_request
    /\ settings.SEPARATE_READ_WRITE_MODEL
    /\ Get(registered_messages(heap[last.obj], "library"), <<"Node", "Response">>)
           = << <<"value", <<"int32">>>>, <<"parent", <<"Node", "Response">>>> >>
    /\ ~MessageRegistered(heap[last.obj], "library", <<"Node", "Request">>)

\* the number of "repeated " markers of a type descriptor
Markers(type) == Cardinality({i \in DOMAIN type : type[i] = "repeated "})

\* C8: every type descriptor stored in a registered field list carries at
\* most one "repeated " marker.
C8_OneRepeatedMarker ==
    \A o \in DOMAIN heap :
        \A a \in DOMAIN heap[o] :
            LET messages == heap[o][a][2].registered_messages
            IN \A i \in DOMAIN messages :
                   \A j \in DOMAIN messages[i][2] :
                       Markers(messages[i][2][j][2]) <= 1

\* a many-relation around a to-many slug relation, resolved
C8_Witness ==
    \E o \in DOMAIN heap :
        /\ Has(heap[o], "library")
        /\ Has(registered_messages(heap[o], "library"), <<"Book", "Request">>)
        /\ \E j \in DOMAIN Get(registered_messages(heap[o], "library"),
                               <<"Book", "Request">>) :
               Get(registered_messages(heap[o], "library"), <<"Book", "Request">>)[j]
                   = <<"tags", <<"repeated ", "string">>>>

\* C9: RegistrySingleton() returns the object the latest construction
\* returned when clean_all was not called since, and changes no registry;
\* the first construction, and the first one after clean_all, return a
\* registry whose registered_app is empty.
C9_Singleton ==
    [][last'.op = "RegistrySingleton" =>
         IF handle.obj # 0 /\ ~handle.cleaned
         THEN last'.obj = handle.obj /\ heap' = heap /\ instances' = handle.obj
         ELSE heap'[last'.obj] = <<>> /\ instances' = last'.obj]_vars

C9_Witness ==
    /\ last.op = "RegistrySingleton"
    /\ last.obj = 2
    /\ instances = 2
    /\ heap[1] # <<>>
    /\ heap[2] = <<>>

\* the controllers of the declared services
ControllersOf(services) ==
    {ControllerName(Services[services[i]].service_name) : i \in DOMAIN services}

\* C10: at the end of a generation pass the current registry holds what the
\* services of this pass register into an empty registry, and no controller
\* of a service that is not declared in this pass.
C10_PassRebuilds ==
    last.op = "generation_pass" =>
        /\ instances = last.obj
        /\ heap[instances] = RegisterAll(<<>>, last.services, 1).reg
        /\ \A a \in DOMAIN heap[instances] :
               Keys(heap[instances][a][2].registered_controllers)
                   \subseteq ControllersOf(last.services)

\* the second pass declares the shop service only; the first one declared
\* the library service
C10_Witness ==
    /\ last.op = "generation_pass"
    /\ last.services = <<"WidgetService">>
    /\ last.obj = 2
    /\ Has(heap[1], "library")
    /\ ~Has(heap[2], "library")
    /\ Has(heap[2], "shop")

\* the class name without a recognized class suffix at its end
WithoutClassSuffix(class_name) ==
    IF EndsWith(class_name, <<"Proto", "Serializer">>)
    THEN SubSeq(class_name, 1, Len(class_name) - 2)
    ELSE IF EndsWith(class_name, <<"Serializer">>)
         THEN SubSeq(class_name, 1, Len(class_name) - 1)
         ELSE class_name

\* C11: with dual schemas, the message name is the class name without the
\* "ProtoSerializer" (else "Serializer") suffix at its end, followed by
\* "Request" for a request and "Response" otherwise; words of the class name
\* that are not that suffix are all kept.
C11_SuffixStripped ==
    (/\ last.op = "get_message_name_from_field_or_serializer_instance"
     /\ settings.SEPARATE_READ_WRITE_MODEL
     /\ last.append_type) =>
        last.ret = WithoutClassSuffix(last.class_name)
                   \o (IF last.is_request THEN REQUEST_SUFFIX ELSE RESPONSE_SUFFIX)

\* the method table of service's controller in app app_name of registry reg
MethodsOf(reg, app_name, service) ==
    Get(registered_controllers(reg, app_name),
        ControllerName(Services[service].service_name))

\* the default registration of kind ran to its end in the latest call
KindRegistered(kind) ==
    /\ last.op = "register_service"
    /\ \E i \in DOMAIN last.done :
           last.done[i] = kind /\ (last.exc = "" \/ i < Len(last.done))

\* the List entry and the two List messages of the latest register_service,
\* the wrapper's first field holding child_type
ListRegisteredWith(child_type) ==
    LET serializer == Services[last.service].serializer
        base == SerializerBaseName(serializer)
        messages == registered_messages(heap[last.obj], last.app_name)
        entry == Get(MethodsOf(heap[last.obj], last.app_name, last.service), LIST)
        field_name == IF Serializers[serializer].message_list_attr # ""
                      THEN Serializers[serializer].message_list_attr
                      ELSE "results"
    IN /\ entry.request.message = base \o <<"List", "Request">>
       /\ entry.response.message = base \o <<"List", "Response">>
       /\ Has(messages, base \o <<"List", "Request">>)
       /\ Get(messages, base \o <<"List", "Request">>) = <<>>
       /\ Has(messages, base \o <<"List", "Response">>)
       /\ Get(messages, base \o <<"List", "Response">>)[1] = <<field_name, child_type>>

\* C12: the List kind of register_service records the entry List with the
\* request <Name>ListRequest, registered empty, and the response
\* <Name>ListResponse, whose first field is named by Meta.message_list_attr
\* (else "results") and typed "repeated " followed by the name of the
\* serializer's response message: <Name>Response with dual schemas, <Name>
\* without.
C12_ListNaming ==
    KindRegistered(LIST) =>
        ListRegisteredWith(
            <<"repeated ">> \o MessageNameOf(Services[last.service].serializer, FALSE))

\* a List registered for a serializer that declares message_list_attr, and
\* one for a serializer that does not, each without dual schemas
C12_Witness ==
    /\ KindRegistered(LIST)
    /\ ~settings.SEPARATE_READ_WRITE_MODEL
    /\ last.service = "LibraryService"
    /\ Get(registered_messages(heap[last.obj], "library"),
           <<"Author", "List", "Response">>)[1]
         = <<"authors", <<"repeated ", "Author">>>>

\* C12 as stated: the first field of <Name>ListResponse is typed
\* "repeated <Name>Response" whatever the settings.
C12_ListResponseType ==
    KindRegistered(LIST) =>
        ListRegisteredWith(
            <<"repeated ">> \o SerializerBaseName(Services[last.service].serializer)
            \o RESPONSE_SUFFIX)

\* pagination is enabled for the service
Paginated(service) ==
    \/ Services[service].pagination_class # None
    \/ settings.DEFAULT_PAGINATION_CLASS # None

\* the message one side of the declaration a resolves to, before any wrapping
OwnMessageName(a, is_request) ==
    LET message == IF is_request THEN a.request ELSE a.response
        given == IF is_request THEN a.request_name ELSE a.response_name
    IN CASE message.kind = "str" -> message.str
         [] message.kind = "list" /\ message.items = <<>> -> Empty
         [] message.kind = "list" /\ message.items # <<>> ->
                IF given = None
                THEN Services[a.service].service_name \o <<a.function_name>>
                     \o (IF is_request THEN REQUEST_SUFFIX ELSE RESPONSE_SUFFIX)
                ELSE given
         [] OTHER ->
                IF given = None THEN MessageNameOf(message.ser, is_request) ELSE given

\* the name under which the list wrapper of one side of a is stored
ListWrapperName(a, is_request) ==
    ListMessageName(
        get_base_name_for_list_message(Services[a.service].service_name,
                                       a.function_name,
                                       OwnMessageName(a, is_request), is_request),
        IF is_request THEN a.request_name ELSE a.response_name, is_request)

\* a results field, followed by ("count", "int32") exactly when paginated
WrapperShape(fields, paginated) ==
    /\ Len(fields) = (IF paginated THEN 2 ELSE 1)
    /\ StartsWith(fields[1][2], <<"repeated ">>)
    /\ paginated => fields[2] = <<"count", <<"int32">>>>

\* the latest call declared a with success
Declared(a) ==
    last.op = "register_custom_action" /\ last.exc = "" /\ last.action = a

\* C13: a list wrapper written by the List kind of register_service or by a
\* declared action with use_request_list / use_response_list holds the
\* results field followed by ("count", "int32") when the service's
\* pagination_class is set or DEFAULT_PAGINATION_CLASS is set, and the
\* results field alone otherwise.
C13_CountWhenPaginated ==
    LET messages == registered_messages(heap[last.obj], last.app_name)
    IN /\ KindRegistered(LIST) =>
            WrapperShape(
                Get(messages, SerializerBaseName(Services[last.service].serializer)
                              \o <<"List", "Response">>),
                Paginated(last.service))
       /\ \A is_request \in BOOLEAN :
            (/\ Declared(last.action)
             /\ IF is_request THEN last.action.use_request_list
                ELSE last.action.use_response_list) =>
                /\ Has(messages, ListWrapperName(last.action, is_request))
                /\ WrapperShape(Get(messages, ListWrapperName(last.action, is_request)),
                                Paginated(last.service))

\* a response wrapper of a service without pagination, no default pagination
C13_Witness ==
    /\ Declared(last.action)
    /\ last.action.use_response_list
    /\ last.action.response.kind = "serializer"
    /\ ~Paginated(last.service)
    /\ Len(Get(registered_messages(heap[last.obj], last.app_name),
               ListWrapperName(last.action, FALSE))) = 1

\* whether registry reg holds message name in app app_name, and its fields
MessageState(reg, app_name, name) ==
    IF Has(reg, app_name) /\ Has(registered_messages(reg, app_name), name)
    THEN [present |-> TRUE, fields |-> Get(registered_messages(reg, app_name), name)]
    ELSE [present |-> FALSE, fields |-> <<>>]

\* the service's lookup request field is no field of its serializer
LookupFieldMissing(service) ==
    ~Has(Serializers[Services[service].serializer].fields,
         Services[service].lookup_request_field)

\* C14: when register_service reaches Retrieve or Destroy for a service whose
\* lookup request field is no field of the serializer, it raises
\* RegisterServiceException with the field name and the serializer class
\* name in its message, the kind's request message is as it was before the
\* call and the controller holds no entry for the kind.
C14_LookupFieldError ==
    [][(Called("register_service") /\ LookupFieldMissing(last'.service)) =>
         \A k \in {RETRIEVE, DESTROY} :
             InSeq(k, last'.done) =>
                 /\ last'.exc = RegisterServiceException
                 /\ last'.args =
                        <<Services[last'.service].lookup_request_field,
                          Serializers[Services[last'.service].serializer].class_name>>
                 /\ MessageState(heap'[last'.obj], last'.app_name,
                                 KindRequestName(last'.service, k))
                      = MessageState(heap[last'.obj], last'.app_name,
                                     KindRequestName(last'.service, k))
                 /\ ~Has(MethodsOf(heap'[last'.obj], last'.app_name, last'.service), k)]_vars

\* Destroy reached with a missing lookup field, Retrieve declared by hand
C14_Witness ==
    /\ last.op = "register_service"
    /\ last.service = "WidgetBrokenService"
    /\ last.exc = RegisterServiceException
    /\ last.args = <<"uuid", <<"Widget", "Serializer">>>>
    /\ InSeq(DESTROY, last.done)
    /\ ~InSeq(RETRIEVE, last.done)
    /\ Has(MethodsOf(heap[last.obj], "shop", "WidgetBrokenService"), RETRIEVE)

\* the message names registry reg holds in app app_name
MessageNames(reg, app_name) ==
    IF Has(reg, app_name) THEN Keys(registered_messages(reg, app_name)) ELSE {}

\* the names one side of the declaration a can register
SideNames(a, is_request) ==
    {OwnMessageName(a, is_request)}
    \cup (IF (IF is_request THEN a.use_request_list ELSE a.use_response_list)
          THEN {ListWrapperName(a, is_request)} ELSE {})

\* the entry the declaration a has in its controller
EntryOf(reg, a) ==
    Get(MethodsOf(reg, get_app_name_from_service_class(a.service), a.service),
        a.function_name)

\* C15: a declaration whose request (response) specification is the empty
\* literal list adds no message of its own for that side, whatever the
\* explicit name; the side resolves to google.protobuf.Empty when its list
\* flag is off, and to the list wrapper around google.protobuf.Empty, which
\* is registered, when the flag is on; an explicit response_name replaces
\* the name recorded for the response.
C15_EmptyLiteralUnwrapped ==
    [][(Called("register_custom_action") /\ last'.exc = "") =>
         LET a == last'.action
             o == last'.obj
         IN \A is_request \in BOOLEAN :
                (IF is_request THEN a.request ELSE a.response) = LiteralSpec(<<>>) =>
                    LET use_list == IF is_request THEN a.use_request_list
                                    ELSE a.use_response_list
                        wrapper == IF use_list THEN {ListWrapperName(a, is_request)}
                                   ELSE {}
                    IN /\ (IF is_request THEN EntryOf(heap'[o], a).request.message
                           ELSE EntryOf(heap'[o], a).response.message)
                         = (IF ~is_request /\ a.response_name # None
                            THEN a.response_name
                            ELSE IF use_list THEN ListWrapperName(a, is_request)
                                 ELSE Empty)
                       /\ MessageNames(heap'[o], last'.app_name)
                            \ MessageNames(heap[o], last'.app_name)
                              \subseteq (SideNames(a, ~is_request) \cup wrapper)
                       /\ use_list =>
                            Get(registered_messages(heap'[o], last'.app_name),
                                ListWrapperName(a, is_request))[1][2]
                              = <<"repeated ">> \o Empty]_vars

\* an empty literal request with an explicit name and no list flag, declared
\* in an app that holds no message afterwards
C15_Witness ==
    /\ Declared(last.action)
    /\ last.action.request = LiteralSpec(<<>>)
    /\ last.action.request_name # None
    /\ ~last.action.use_request_list
    /\ EntryOf(heap[last.obj], last.action).request.message = Empty
    /\ MessageNames(heap[last.obj], last.app_name) = {}

\* C15 as stated: the side resolves to google.protobuf.Empty and no message
\* is added for it, whatever the explicit name and the list flag.
C15_EmptyLiteral ==
    [][(Called("register_custom_action") /\ last'.exc = "") =>
         LET a == last'.action
             o == last'.obj
         IN \A is_request \in BOOLEAN :
                (IF is_request THEN a.request ELSE a.response) = LiteralSpec(<<>>) =>
                    /\ (IF is_request THEN EntryOf(heap'[o], a).request.message
                        ELSE EntryOf(heap'[o], a).response.message) = Empty
                    /\ MessageNames(heap'[o], last'.app_name)
                         \ MessageNames(heap[o], last'.app_name)
                           \subseteq SideNames(a, ~is_request)]_vars

\* the method fields of serializer whose accessor exists without a return
\* annotation
UnannotatedMethodFields(serializer) ==
    LET fields == Serializers[serializer].fields
        methods == Serializers[serializer].methods
        Accessor(i) == IF fields[i][2].method_name = None
                       THEN <<"get_", fields[i][1]>>
                       ELSE fields[i][2].method_name
    IN {i \in DOMAIN fields :
          /\ issubclass(fields[i][2], "SerializerMethodField")
          /\ Has(methods, Accessor(i))
          /\ Get(methods, Accessor(i)) = ""}

\* the field at position i of serializer is kept in a message of mode is_request
Retained(serializer, i, is_request) ==
    LET fields == Serializers[serializer].fields
        pk_name == IF Serializers[serializer].meta_model # ""
                   THEN get_model_pk(Serializers[serializer].meta_model).name
                   ELSE ""
    IN ~FieldSkipped(fields[i][1], fields[i][2], pk_name, is_request)

\* C16: registering a serializer in an app the registry holds, under a
\* message name the app's table does not hold yet, in a mode that keeps a
\* method field whose accessor exists without a return annotation, raises
\* RegisterServiceException with a message naming the serializer class and
\* the field.
C16_UnannotatedMethodRaises ==
    [][Called("register_serializer_as_message_if_not_exist") =>
         LET s == last'.serializer
             kept == {i \in UnannotatedMethodFields(s) : Retained(s, i, last'.is_request)}
         IN (/\ kept # {}
             /\ Has(heap[last'.obj], last'.app_name)
             /\ ~MessageState(heap[last'.obj], last'.app_name,
                              MessageNameOf(s, last'.is_request)).present)
              => /\ last'.exc = RegisterServiceException
                 /\ \E i \in kept :
                        last'.args = <<Serializers[s].class_name,
                                       Serializers[s].fields[i][1]>>]_vars

\* the response message of ReportSerializer was refused because of score
C16_Witness ==
    /\ last.op = "register_serializer_as_message_if_not_exist"
    /\ last.serializer = "ReportSerializer"
    /\ ~last.is_request
    /\ last.exc = RegisterServiceException
    /\ last.args = <<Serializers["ReportSerializer"].class_name, "score">>

\* C16 as stated: every registration, in an app the registry holds, of a
\* serializer that has such a method field raises the error.
C16_EveryRegistrationRaises ==
    [][Called("register_serializer_as_message_if_not_exist") =>
         LET s == last'.serializer
         IN (UnannotatedMethodFields(s) # {} /\ Has(heap[last'.obj], last'.app_name))
              => /\ last'.exc = RegisterServiceException
                 /\ \E i \in UnannotatedMethodFields(s) :
                        last'.args = <<Serializers[s].class_name,
                                       Serializers[s].fields[i][1]>>]_vars

\* the positions of the declared fields of serializer that a message of mode
\* is_request is to hold
ExpectedPositions(serializer, is_request) ==
    LET fields == Serializers[serializer].fields
        model == Serializers[serializer].meta_model
        IsPk(i) == model # "" /\ fields[i][1] = Models[model].pk_name
        Hidden(i) == "HiddenField" \in fields[i][2].bases
        ReadOnlyAt(i) == fields[i][2].read_only \/ "ReadOnlyField" \in fields[i][2].bases
        WriteOnlyAt(i) == fields[i][2].write_only
    IN {i \in DOMAIN fields :
          /\ ~Hidden(i)
          /\ (settings.SEPARATE_READ_WRITE_MODEL /\ ~IsPk(i))
               => IF is_request THEN ~ReadOnlyAt(i) ELSE ~WriteOnlyAt(i)}

\* the names of the fields stored under message name in app app_name
StoredNames(reg, app_name, name) ==
    LET stored == MessageState(reg, app_name, name).fields
    IN [i \in DOMAIN stored |-> stored[i][1]]

\* the call added the message of its serializer to the table and returned
RegisteredAnew ==
    /\ Called("register_serializer_as_message_if_not_exist")
    /\ last'.exc = ""
    /\ ~MessageState(heap[last'.obj], last'.app_name,
                     MessageNameOf(last'.serializer, last'.is_request)).present

\* C17: the field list a returning register_serializer_as_message_if_not_exist
\* stores for a new message holds, once each, exactly the declared fields
\* that are not hidden and, with dual schemas enabled, not read-only (request)
\* or not write-only (response), the primary key of the backing model being
\* kept whatever these two flags; with dual schemas disabled only the hidden
\* fields are left out.
C17_StoredFields ==
    [][RegisteredAnew =>
         LET s == last'.serializer
             names == StoredNames(heap'[last'.obj], last'.app_name,
                                  MessageNameOf(s, last'.is_request))
             expected == ExpectedPositions(s, last'.is_request)
         IN /\ {names[i] : i \in DOMAIN names}
                 = {Serializers[s].fields[i][1] : i \in expected}
            /\ Len(names) = Cardinality(expected)]_vars

\* with dual schemas enabled, the request message of WidgetSerializer holds
\* its read-only primary key and not its other read-only field
C17_Witness ==
    /\ last.op = "register_serializer_as_message_if_not_exist"
    /\ last.serializer = "WidgetSerializer"
    /\ last.app_name = "library"
    /\ last.is_request
    /\ last.exc = ""
    /\ settings.SEPARATE_READ_WRITE_MODEL
    /\ StoredNames(heap[last.obj], last.app_name,
                   MessageNameOf("WidgetSerializer", TRUE)) = <<"id", "name", "secret">>

\* every name of names is a declared field of serializer, and the names
\* follow one another as the declarations do
InDeclarationOrder(names, serializer) ==
    LET declared == KeySeq(Serializers[serializer].fields)
        Position(n) == CHOOSE k \in DOMAIN declared : declared[k] = n
    IN \A i, j \in DOMAIN names :
           i < j => Position(names[i]) < Position(names[j])

\* the messages registry reg holds for serializer: its message name in
\* either mode, with declared fields only
MessagesFrom(reg, serializer) ==
    {e \in {[app_name |-> a, name |-> MessageNameOf(serializer, is_request)] :
               a \in Keys(reg), is_request \in BOOLEAN} :
        /\ MessageState(reg, e.app_name, e.name).present
        /\ \A i \in DOMAIN StoredNames(reg, e.app_name, e.name) :
               InSeq(StoredNames(reg, e.app_name, e.name)[i],
                     KeySeq(Serializers[serializer].fields))}

EntriesOf(reg, service) ==
    LET app_name == get_app_name_from_service_class(service)
        controller_name == ControllerName(Services[service].service_name)
    IN IF Has(reg, app_name) /\ Has(registered_controllers(reg, app_name), controller_name)
       THEN Get(registered_controllers(reg, app_name), controller_name)
       ELSE <<>>

\* C19: every entry register_service writes for a conventional kind has
\* request.is_stream false, and response.is_stream true exactly for the
\* Stream kind; the entry of a register_custom_action call has the
\* request_stream and response_stream values of the call, whatever the
\* other one is.
C19_StreamFlags ==
    [][/\ Called("register_service") =>
            LET before == EntriesOf(heap[last'.obj], last'.service)
                after == EntriesOf(heap'[last'.obj], last'.service)
            IN \A method \in Keys(after) \ Keys(before) :
                   /\ ~Get(after, method).request.is_stream
                   /\ Get(after, method).response.is_stream <=> (method = STREAM)
       /\ (Called("register_custom_action") /\ last'.exc = "") =>
            LET entry == Get(EntriesOf(heap'[last'.obj], last'.service),
                             last'.action.function_name)
            IN /\ entry.request.is_stream = last'.action.request_stream
               /\ entry.response.is_stream = last'.action.response_stream]_vars

\* the library controller holds the conventional Stream entry next to a
\* declared action that streams its request only
C19_Witness ==
    /\ last.op = "register_service"
    /\ last.service = "LibraryService"
    /\ last.exc = ""
    /\ LET entries == EntriesOf(heap[last.obj], "LibraryService")
       IN /\ Has(entries, STREAM) /\ Has(entries, LIST) /\ Has(entries, "Watch")
          /\ Get(entries, STREAM).response.is_stream
          /\ ~Get(entries, STREAM).request.is_stream
          /\ ~Get(entries, LIST).response.is_stream
          /\ Get(entries, "Watch").request.is_stream
          /\ ~Get(entries, "Watch").response.is_stream

\* C20: the entry of a register_custom_action call that is given an explicit
\* request_name (response_name) records exactly that name for the request
\* (response), whatever the form of the specification and the list flag.
C20_ExplicitNameRecorded ==
    [][(Called("register_custom_action") /\ last'.exc = "") =>
         LET a == last'.action
             entry == EntryOf(heap'[last'.obj], a)
         IN /\ a.request_name # None => entry.request.message = a.request_name
            /\ a.response_name # None => entry.response.message = a.response_name]_vars

\* C20, the response: an explicit response_name is the recorded name
C20_ResponseNameRecorded ==
    [][(Called("register_custom_action") /\ last'.exc = "") =>
         LET a == last'.action
         IN a.response_name # None
              => EntryOf(heap'[last'.obj], a).response.message = a.response_name]_vars

\* the message names the method entries of registry reg refer to
ReferencedNames(reg) ==
    UNION {UNION {UNION {{c[2][i][2].request.message, c[2][i][2].response.message} :
                           i \in DOMAIN c[2]} :
                    c \in {reg[a][2].registered_controllers[k] :
                             k \in DOMAIN reg[a][2].registered_controllers}} :
             a \in DOMAIN reg}

\* C21: no registry holds a message under a well-known external type name
\* (a name that starts with google.protobuf); such names are referred to by
\* method entries only.
C21_NoExternalMessage ==
    \A o \in DOMAIN heap : \A a \in DOMAIN heap[o] :
        \A name \in Keys(heap[o][a][2].registered_messages) :
            ~is_special_protobuf_message(name)

\* the entries of a registry refer to google.protobuf.Empty (the Destroy
\* response and an empty literal list) and to a raw google.protobuf.Struct
C21_Witness ==
    \E o \in DOMAIN heap :
        /\ Has(EntriesOf(heap[o], "WidgetService"), DESTROY)
        /\ Get(EntriesOf(heap[o], "WidgetService"), DESTROY).response.message = Empty
        /\ Has(EntriesOf(heap[o], "WidgetService"), "Export")
        /\ Get(EntriesOf(heap[o], "WidgetService"), "Export").request.message = Empty
        /\ <<"google.protobuf", ".Struct">> \in ReferencedNames(heap[o])
        /\ Keys(registered_messages(heap[o], "shop")) # {}

\* the class name the resolver looks up in type_mapping for field_type, or
\* "" when it resolves the field without a lookup of such a name
LookedUp(field_type, serializer, field_name) ==
    LET model == Serializers[serializer].meta_model
    IN IF issubclass(field_type, "SlugRelatedField")
       THEN IF model # "" /\ Has(Models[model].relationships, field_name)
                 /\ Has(Models[Get(Models[model].relationships, field_name).related_model].attrs,
                        field_type.slug_field)
            THEN Get(Models[Get(Models[model].relationships, field_name).related_model].attrs,
                     field_type.slug_field)
            ELSE ""
       ELSE IF issubclass(field_type, "RelatedField")
            THEN IF field_type.pk_field # "" THEN field_type.pk_field
                 ELSE Models[field_type.queryset_model].pk_cls
       ELSE IF issubclass(field_type, "ModelField") THEN field_type.model_field
       ELSE IF issubclass(field_type, "ListField") THEN field_type.child_cls
       ELSE IF field_type.bases = {"Field"} THEN field_type.cls
       ELSE ""

\* the fields of serializer for which the resolver looks up a class name
\* that is no key of type_mapping
UnknownLookups(serializer) ==
    LET fields == Serializers[serializer].fields
    IN {i \in DOMAIN fields :
          /\ LookedUp(fields[i][2], serializer, fields[i][1]) # ""
          /\ LookedUp(fields[i][2], serializer, fields[i][1]) \notin DOMAIN type_mapping}

\* type is "string" or "repeated string"
GenericString(type) == type \in {<<"string">>, <<"repeated ", "string">>}

\* C22: every lookup of a class name that is no key of type_mapping yields
\* the generic string type without an error: the fields of such classes that
\* register_service stores in the serializer's response message, and the
\* lookup field of the Retrieve / Destroy request, have the type string.
C22_UnknownIsString ==
    [][(Called("register_service") /\ last'.service \in CatalogServiceNames) =>
         LET service == last'.service
             s == Services[service].serializer
             reg == heap'[last'.obj]
             response == MessageState(reg, last'.app_name, MessageNameOf(s, FALSE))
         IN /\ last'.exc = ""
            /\ \A k \in {RETRIEVE, DESTROY} \cap Services[service].methods :
                   LET request ==
                           MessageState(reg, last'.app_name,
                                        SerializerBaseName(s) \o <<k>> \o REQUEST_SUFFIX)
                   IN request.present =>
                        \A i \in DOMAIN request.fields :
                            Get(Serializers[s].fields, request.fields[i][1]).cls
                                \notin DOMAIN type_mapping
                              => GenericString(request.fields[i][2])
            /\ \A i \in UnknownLookups(s) : \A j \in DOMAIN response.fields :
                   response.fields[j][1] = Serializers[s].fields[i][1]
                     => GenericString(response.fields[j][2])]_vars

\* C22, the lookups whose default is the string type: primitive fields,
\* model fields and the children of list fields
C22_StringDefaults ==
    [][(/\ Called("register_service")
        /\ last'.service \in CatalogServiceNames
        /\ RETRIEVE \in Services[last'.service].methods) =>
         LET s == Services[last'.service].serializer
             response == MessageState(heap'[last'.obj], last'.app_name,
                                      MessageNameOf(s, FALSE))
         IN /\ last'.exc = ""
            /\ response.present
            /\ \A i \in UnknownLookups(s) : \A j \in DOMAIN response.fields :
                   (/\ response.fields[j][1] = Serializers[s].fields[i][1]
                    /\ ~issubclass(Serializers[s].fields[i][2], "RelatedField"))
                     => GenericString(response.fields[j][2])]_vars

\* the base name of the list wrapper on one side of the declaration a
WrapperBase(a, is_request) ==
    get_base_name_for_list_message(Services[a.service].service_name, a.function_name,
                                   OwnMessageName(a, is_request), is_request)

\* C23: a declaration with use_request_list and no request_name registers
\* the request wrapper under <base>ListRequest, one with use_response_list
\* and no response_name registers the response wrapper under
\* <base>ListResponse, and the entry refers to these names.
C23_ListBeforeMarker ==
    [][(Called("register_custom_action") /\ last'.exc = "") =>
         LET a == last'.action
             reg == heap'[last'.obj]
         IN /\ (a.use_request_list /\ a.request_name = None) =>
                 LET name == WrapperBase(a, TRUE) \o <<"List">> \o REQUEST_SUFFIX
                 IN /\ EntryOf(reg, a).request.message = name
                    /\ MessageState(reg, last'.app_name, name).present
            /\ (a.use_response_list /\ a.response_name = None) =>
                 LET name == WrapperBase(a, FALSE) \o <<"List">> \o RESPONSE_SUFFIX
                 IN /\ EntryOf(reg, a).response.message = name
                    /\ MessageState(reg, last'.app_name, name).present]_vars

\* C23, the response: the wrapper is <base>ListResponse and the entry
\* refers to it
C23_ResponseWrapper ==
    [][(Called("register_custom_action") /\ last'.exc = "") =>
         LET a == last'.action
             reg == heap'[last'.obj]
             name == WrapperBase(a, FALSE) \o <<"List">> \o RESPONSE_SUFFIX
         IN (a.use_response_list /\ a.response_name = None) =>
                /\ EntryOf(reg, a).response.message = name
                /\ MessageState(reg, last'.app_name, name).present]_vars

\* name holds the token List twice in a row
DoubleList(name) == Contains(name, <<"List", "List">>)

\* C24: get_base_name_for_list_message returns a name that ends in List and
\* the marker without that combination, whatever the action name, and any
\* other name without its marker; the wrapper name <base>List<marker> made
\* from a name without a double List has none either.
C24_NoDoubleList ==
    last.op = "get_base_name_for_list_message" =>
        LET suffix == IF last.is_request THEN REQUEST_SUFFIX ELSE RESPONSE_SUFFIX
            list_suffix == <<"List">> \o suffix
            name == last.message_name
        IN /\ EndsWith(name, list_suffix)
                => last.ret = SubSeq(name, 1, Len(name) - Len(list_suffix))
           /\ (~EndsWith(name, list_suffix) /\ EndsWith(name, suffix))
                => last.ret = SubSeq(name, 1, Len(name) - Len(suffix))
           /\ (EndsWith(name, suffix) /\ ~DoubleList(name))
                => ~DoubleList(last.ret \o list_suffix)

\* C24, the List kind: a name that ends in List and the marker loses the
\* combination, and the wrapper name has no double List
C24_ListKind ==
    (last.op = "get_base_name_for_list_message" /\ last.function_name = LIST) =>
        LET suffix == IF last.is_request THEN REQUEST_SUFFIX ELSE RESPONSE_SUFFIX
            list_suffix == <<"List">> \o suffix
            name == last.message_name
        IN (EndsWith(name, list_suffix) /\ ~DoubleList(name))
             => /\ last.ret = SubSeq(name, 1, Len(name) - Len(list_suffix))
                /\ ~DoubleList(last.ret \o list_suffix)

\* the positions of the fields of serializer that are a nested serializer or
\* a list of one
NestedFields(serializer) ==
    {i \in DOMAIN Serializers[serializer].fields :
        "BaseProtoSerializer" \in Serializers[serializer].fields[i][2].bases}

\* the type a parent message of mode is_request gives to its nested field
NestedType(field_type, is_request) ==
    (IF "ListProtoSerializer" \in field_type.bases THEN <<"repeated ">> ELSE <<>>)
    \o MessageNameOf(field_type.ser, is_request)

\* C25: in every registry, a field that a serializer's message took from a
\* nested serializer or a list of one has the type <child message name> or
\* repeated <child message name>, the child's name being the one of the
\* parent's mode, and that name is a key of the same app's messages.
C25_ChildRegistered ==
    \A o \in DOMAIN heap : \A app_name \in Keys(heap[o]) :
        \A s \in SerializerNames, is_request \in BOOLEAN :
            LET parent == MessageState(heap[o], app_name, MessageNameOf(s, is_request))
            IN \A j \in DOMAIN parent.fields : \A i \in NestedFields(s) :
                   parent.fields[j][1] = Serializers[s].fields[i][1] =>
                       /\ parent.fields[j][2]
                            = NestedType(Serializers[s].fields[i][2], is_request)
                       /\ MessageState(heap[o], app_name,
                                       MessageNameOf(Serializers[s].fields[i][2].ser,
                                                     is_request)).present

\* with dual schemas, the library service is registered and no call names
\* BookProtoSerializer: the Author response message holds repeated
\* BookResponse, and BookResponse is a message of the app
C25_Witness ==
    /\ last.op = "register_service"
    /\ last.service = "LibraryService"
    /\ last.exc = ""
    /\ calls = 1
    /\ settings.SEPARATE_READ_WRITE_MODEL
    /\ LET author == MessageState(heap[last.obj], "library",
                                  MessageNameOf("AuthorProtoSerializer", FALSE))
       IN /\ author.present
          /\ \E j \in DOMAIN author.fields :
                 author.fields[j] = <<"books", <<"repeated ", "Book", "Response">>>>
          /\ MessageState(heap[last.obj], "library", <<"Book", "Response">>).present

\* the method fields of serializer whose accessor declares a return type
\* that the translation table does not hold
UntranslatedMethodFields(serializer) ==
    LET fields == Serializers[serializer].fields
        methods == Serializers[serializer].methods
        Accessor(i) == IF fields[i][2].method_name = None
                       THEN <<"get_", fields[i][1]>>
                       ELSE fields[i][2].method_name
    IN {i \in DOMAIN fields :
          /\ issubclass(fields[i][2], "SerializerMethodField")
          /\ Has(methods, Accessor(i))
          /\ Get(methods, Accessor(i)) # ""
          /\ Get(methods, Accessor(i)) \notin DOMAIN python_type_to_proto_type}

\* C26: registering a serializer, under a name the app does not hold yet and
\* in a mode that keeps a method field whose accessor declares a return type
\* outside the translation table, raises RegisterServiceException, as for a
\* missing annotation.
C26_UntranslatedTypeRaises ==
    [][Called("register_serializer_as_message_if_not_exist") =>
         LET s == last'.serializer
             kept == {i \in UntranslatedMethodFields(s) :
                        Retained(s, i, last'.is_request)}
         IN (/\ kept # {}
             /\ Has(heap[last'.obj], last'.app_name)
             /\ ~MessageState(heap[last'.obj], last'.app_name,
                              MessageNameOf(s, last'.is_request)).present)
              => last'.exc = RegisterServiceException]_vars

\* C26, what the call does: it ends in an error, which is a KeyError
C26_EndsInKeyError ==
    [][Called("register_serializer_as_message_if_not_exist") =>
         LET s == last'.serializer
             kept == {i \in UntranslatedMethodFields(s) :
                        Retained(s, i, last'.is_request)}
         IN (/\ kept # {}
             /\ Has(heap[last'.obj], last'.app_name)
             /\ ~MessageState(heap[last'.obj], last'.app_name,
                              MessageNameOf(s, last'.is_request)).present)
              => last'.exc = "KeyError"]_vars

\* the request or the response of the declaration a is no list, string or
\* serializer class
Unsupported(a) ==
    \/ a.request.kind \notin {"list", "str", "serializer"}
    \/ a.response.kind \notin {"list", "str", "serializer"}

\* C27: register_custom_action with a request or response that is no list,
\* string or serializer class raises RegisterServiceException, whose message
\* names the side, the action and the app, and leaves the controller's
\* entries as they were: none is added, and the one already under the action
\* name is kept.
C27_UnsupportedSpecRaises ==
    [][(Called("register_custom_action") /\ Unsupported(last'.action)) =>
         LET a == last'.action
         IN /\ last'.exc = RegisterServiceException
            /\ last'.args = <<IF a.request.kind \notin {"list", "str", "serializer"}
                              THEN REQUEST_SUFFIX ELSE RESPONSE_SUFFIX,
                              a.function_name, last'.app_name>>
            /\ EntriesOf(heap'[last'.obj], a.service)
                 = EntriesOf(heap[last'.obj], a.service)]_vars

\* the library controller holds an entry under Export, and a second
\* declaration of Export without response was refused
C27_Witness ==
    /\ last.op = "register_custom_action"
    /\ last.action = Action("LibraryService", "Export", StrSpec(Empty), NoneSpec)
    /\ last.exc = RegisterServiceException
    /\ Has(EntriesOf(heap[last.obj], "LibraryService"), "Export")

\* the slug relation of field_type: the field itself, or the child relation
\* of a many-relation around one; << >> when there is none
SlugRelationOf(field_type) ==
    IF "SlugRelatedField" \in field_type.bases THEN <<field_type>>
    ELSE IF "ManyRelatedField" \in field_type.bases
            /\ "SlugRelatedField" \in field_type.rel[1].bases
         THEN <<field_type.rel[1]>>
         ELSE <<>>

\* the slug relations of serializer that cannot be resolved: the serializer
\* declares no model, the model has no relationship under the field's name,
\* or the related model has no attribute named by slug_field
DegradedSlugFields(serializer) ==
    LET fields == Serializers[serializer].fields
        model == Serializers[serializer].meta_model
    IN {i \in DOMAIN fields :
          /\ SlugRelationOf(fields[i][2]) # <<>>
          /\ \/ model = ""
             \/ fields[i][1] \notin Keys(Models[model].relationships)
             \/ SlugRelationOf(fields[i][2])[1].slug_field \notin
                  Keys(Models[Get(Models[model].relationships,
                                  fields[i][1]).related_model].attrs)}

\* the number of fields a message of mode is_request keeps before position i
KeptBefore(serializer, i, is_request) ==
    Cardinality({k \in 1..(i - 1) : Retained(serializer, k, is_request)})

\* C28: the registration of a serializer never stops at a slug relation:
\* whenever the call raises, the field it stopped at is no slug relation.
C28_SlugNeverRaises ==
    [][(/\ Called("register_serializer_as_message_if_not_exist")
        /\ Has(heap[last'.obj], last'.app_name)
        /\ ~MessageState(heap[last'.obj], last'.app_name,
                         MessageNameOf(last'.serializer, last'.is_request)).present
        /\ last'.exc # "") =>
         LET s == last'.serializer
             stopped == Len(MessageState(heap'[last'.obj], last'.app_name,
                                         MessageNameOf(s, last'.is_request)).fields)
         IN \A i \in DOMAIN Serializers[s].fields :
                (/\ Retained(s, i, last'.is_request)
                 /\ KeptBefore(s, i, last'.is_request) = stopped)
                  => SlugRelationOf(Serializers[s].fields[i][2]) = <<>>]_vars

\* the part of C28 that holds: the registration never stops at a slug
\* relation that cannot be resolved (no backing model, no such relationship,
\* no such attribute of the related model): the field is stored with the
\* string type and the fields after it are registered.
C28_SlugDegrades ==
    [][(/\ Called("register_serializer_as_message_if_not_exist")
        /\ Has(heap[last'.obj], last'.app_name)
        /\ ~MessageState(heap[last'.obj], last'.app_name,
                         MessageNameOf(last'.serializer, last'.is_request)).present) =>
         LET s == last'.serializer
             stored == MessageState(heap'[last'.obj], last'.app_name,
                                    MessageNameOf(s, last'.is_request)).fields
         IN \A i \in DegradedSlugFields(s) :
                Retained(s, i, last'.is_request) =>
                    LET n == KeptBefore(s, i, last'.is_request)
                    IN /\ last'.exc # "" => Len(stored) # n
                       /\ Len(stored) > n =>
                            /\ stored[n + 1][1] = Serializers[s].fields[i][1]
                            /\ GenericString(stored[n + 1][2])
                       /\ (\A k \in DOMAIN Serializers[s].fields :
                               SlugRelationOf(Serializers[s].fields[k][2]) # <<>>
                                 => k \in DegradedSlugFields(s))
                            => last'.exc = ""]_vars

\* the message of ShelfSerializer holds its three slug relations as strings
\* and the field declared after them
C28_Witness ==
    /\ last.op = "register_serializer_as_message_if_not_exist"
    /\ last.serializer = "ShelfSerializer"
    /\ last.exc = ""
    /\ MessageState(heap[last.obj], last.app_name,
                    MessageNameOf("ShelfSerializer", last.is_request)).fields
         = << <<"binding", <<"string">>>>, <<"shelf", <<"string">>>>,
              <<"tags", <<"repeated ", "string">>>>, <<"note", <<"int32">>>> >>

\* whether the register_service call just made has registered kind method
\* to its end: it reached the kind and did not raise in it
KindCompleted(method) ==
    /\ Called("register_service")
    /\ \E i \in DOMAIN last'.done :
           /\ last'.done[i] = method
           /\ last'.exc # "" => i < Len(last'.done)

\* the one field of the request message of Retrieve and Destroy: the
\* service's lookup request field, with the type the mapping has for the
\* field's class (and the lookup placeholder of line 755 for a class the
\* mapping does not have)
LookupField(service) ==
    LET field_name == Services[service].lookup_request_field
        fields == Serializers[Services[service].serializer].fields
    IN <<field_name, type_mapping_get(Get(fields, field_name).cls,
                                      <<"lookup_field_type_not_found">>)>>

\* C29: for Retrieve and Destroy registered by register_service, the request
\* message (<Name>RetrieveRequest, <Name>DestroyRequest) has exactly one
\* field, the service's lookup request field with its type; the Destroy
\* entry's response is google.protobuf.Empty and Destroy registers no
\* response message; the Retrieve entry's response is the serializer's
\* response message, which is registered.
C29_RetrieveDestroy ==
    [][LET service == last'.service
           app_name == last'.app_name
           before == heap[last'.obj]
           after == heap'[last'.obj]
           response_name == MessageNameOf(Services[service].serializer, FALSE)
       IN /\ KindCompleted(RETRIEVE) =>
               /\ MessageState(after, app_name, KindRequestName(service, RETRIEVE))
                    = [present |-> TRUE, fields |-> <<LookupField(service)>>]
               /\ Has(MethodsOf(after, app_name, service), RETRIEVE)
               /\ Get(MethodsOf(after, app_name, service), RETRIEVE).request.message
                    = KindRequestName(service, RETRIEVE)
               /\ Get(MethodsOf(after, app_name, service), RETRIEVE).response.message
                    = response_name
               /\ MessageState(after, app_name, response_name).present
          /\ KindCompleted(DESTROY) =>
               /\ MessageState(after, app_name, KindRequestName(service, DESTROY))
                    = [present |-> TRUE, fields |-> <<LookupField(service)>>]
               /\ Has(MethodsOf(after, app_name, service), DESTROY)
               /\ Get(MethodsOf(after, app_name, service), DESTROY).request.message
                    = KindRequestName(service, DESTROY)
               /\ Get(MethodsOf(after, app_name, service), DESTROY).response.message = Empty
               /\ Empty \in MessageNames(after, app_name)
                    => Empty \in MessageNames(before, app_name)
               /\ last'.done = <<DESTROY>> =>
                    MessageNames(after, app_name)
                      = MessageNames(before, app_name)
                          \cup {KindRequestName(service, DESTROY)}]_vars

\* CatalogService has registered Retrieve and Destroy on the lookup field
\* code; PurgeService, in the same registry, Destroy alone
C29_Witness ==
    /\ last.op = "register_service"
    /\ last.service = "PurgeService"
    /\ last.done = <<DESTROY>>
    /\ last.exc = ""
    /\ MessageNames(heap[last.obj], "catalog")
         = {<<"Loose", "Destroy">> \o REQUEST_SUFFIX,
            <<"Catalog", "Retrieve">> \o REQUEST_SUFFIX,
            <<"Catalog", "Destroy">> \o REQUEST_SUFFIX,
            MessageNameOf("CatalogSerializer", FALSE)}
    /\ Get(EntriesOf(heap[last.obj], "CatalogService"), DESTROY).response.message
         = Empty
    /\ Get(EntriesOf(heap[last.obj], "CatalogService"), RETRIEVE).response.message
         = MessageNameOf("CatalogSerializer", FALSE)

\* the fixed order of the conventional kinds
KindOrder == <<"List", "Create", "Retrieve", "Update", "PartialUpdate", "Destroy", "Stream">>

KindPosition(method) == CHOOSE i \in DOMAIN KindOrder : KindOrder[i] = method

\* the method table of service's controller in app app_name of registry reg,
\* empty when the registry has no such controller
ControllerEntries(reg, app_name, service) ==
    IF Has(reg, app_name)
       /\ Has(registered_controllers(reg, app_name),
              ControllerName(Services[service].service_name))
    THEN MethodsOf(reg, app_name, service)
    ELSE <<>>

\* C30: register_service goes through the conventional kinds in the order
\* List, Create, Retrieve, Update, PartialUpdate, Destroy, Stream; when the
\* registration of kind k raises, the controller holds an entry for every
\* implemented kind before k, and its entries for k and for the kinds after
\* k are those it held before the call.
C30_FixedOrder ==
    [][Called("register_service") =>
         LET service == last'.service
             done == last'.done
             before == ControllerEntries(heap[last'.obj], last'.app_name, service)
             after == ControllerEntries(heap'[last'.obj], last'.app_name, service)
         IN /\ \A i, j \in DOMAIN done :
                   i < j => KindPosition(done[i]) < KindPosition(done[j])
            /\ last'.exc # "" =>
                 /\ done # <<>>
                 /\ done[Len(done)] \in Services[service].methods
                 /\ \A i \in DOMAIN KindOrder :
                        IF i < KindPosition(done[Len(done)])
                        THEN KindOrder[i] \in Services[service].methods
                               => Has(after, KindOrder[i])
                        ELSE /\ Has(after, KindOrder[i]) <=> Has(before, KindOrder[i])
                             /\ Has(after, KindOrder[i]) =>
                                  Get(after, KindOrder[i]) = Get(before, KindOrder[i])
                             /\ KindOrder[i] = done[Len(done)]
                                  => ~Has(after, KindOrder[i])]_vars

\* WidgetBrokenService, which implements List, Create, Retrieve, Update and
\* Destroy, has raised in Retrieve: its controller holds List and Create
C30_Witness ==
    /\ last.op = "register_service"
    /\ last.service = "WidgetBrokenService"
    /\ last.exc = RegisterServiceException
    /\ last.done = <<LIST, CREATE, RETRIEVE>>
    /\ Keys(ControllerEntries(heap[last.obj], last.app_name, last.service))
         = {LIST, CREATE}

\* every declaration made in some specification
AllDeclarations ==
    CustomActions \cup DeclaredActions \cup LookupDeclarations \cup WrapperDeclarations

\* the type names callers pass as a string specification, and the empty type
RawTypeNames ==
    {a.request.str : a \in {d \in AllDeclarations : d.request.kind = "str"}}
    \cup {a.response.str : a \in {d \in AllDeclarations : d.response.kind = "str"}}
    \cup {Empty}

\* whether message name resolves in app app_name of registry reg
Resolves(reg, app_name, name) ==
    name \in Keys(registered_messages(reg, app_name)) \/ name \in RawTypeNames

\* whether both sides of every entry of every controller of the app resolve
AppResolves(reg, app_name) ==
    LET controllers == registered_controllers(reg, app_name)
    IN \A c \in DOMAIN controllers : \A m \in DOMAIN controllers[c][2] :
           /\ Resolves(reg, app_name, controllers[c][2][m][2].request.message)
           /\ Resolves(reg, app_name, controllers[c][2][m][2].response.message)

\* C31: in every registry, the request and the response message of every
\* method entry is a key of the same app's registered_messages, a type name
\* passed as a string specification, or google.protobuf.Empty.
C31_EntriesResolve ==
    \A o \in DOMAIN heap : \A app_name \in Keys(heap[o]) :
        AppResolves(heap[o], app_name)

\* the part of C31 that holds: an app in which everything resolves stays so
\* through register_service, and through a register_custom_action call that
\* gives no response_name
C31_ResolvesWithoutResponseName ==
    [][(/\ \/ Called("register_service")
           \/ Called("register_custom_action") /\ last'.action.response_name = None
        /\ Has(heap[last'.obj], last'.app_name)
             => AppResolves(heap[last'.obj], last'.app_name))
         => AppResolves(heap'[last'.obj], last'.app_name)]_vars

\* whether message name of app_name in registry reg has a field whose type is
\* "repeated <name>"
RepeatsItself(reg, app_name, name) ==
    \E i \in DOMAIN Get(registered_messages(reg, app_name), name) :
        Get(registered_messages(reg, app_name), name)[i][2] = <<"repeated ">> \o name

\* C32: a list wrapper is stored under a name other than the name of the
\* message it repeats: no registered message has a field of type
\* "repeated <its own name>".
C32_WrapperBesideChild ==
    \A o \in DOMAIN heap : \A app_name \in Keys(heap[o]) :
        \A name \in Keys(registered_messages(heap[o], app_name)) :
            ~RepeatsItself(heap[o], app_name, name)

\* the part of C32 about the child: after a declaration with a literal
\* response and use_response_list, the message of the literal list still has
\* the fields of the list
C32_ChildKept ==
    [][(/\ Called("register_custom_action")
        /\ last'.exc = ""
        /\ last'.action.response.kind = "list"
        /\ last'.action.response.items # <<>>
        /\ last'.action.use_response_list) =>
         MessageState(heap'[last'.obj], last'.app_name,
                      OwnMessageName(last'.action, FALSE)).fields
           = last'.action.response.items]_vars

\* the controllers of app_name in registry reg, none when the app is absent
ControllersIn(reg, app_name) ==
    IF Has(reg, app_name) THEN registered_controllers(reg, app_name) ELSE <<>>

\* whether every key of the dict before is a key of the dict after, with the
\* same value when the key is none of those in except
KeptBut(before, after, except) ==
    \A k \in Keys(before) :
        /\ Has(after, k)
        /\ k \notin except => Get(after, k) = Get(before, k)

\* C33: a registration call writes to one app entry and resets nothing:
\* register_service(app, S) changes registered_app[app] only,
\* register_custom_action the app named by the first segment of the service
\* class's module only; the other apps are as before, the controllers of the
\* other services in the app are as before, the entries of the service's own
\* controller stay (the entry of the declared action apart, which the
\* declaration sets), and every message name of the app is still a message.
C33_OneAppNothingReset ==
    [][(Called("register_service") \/ Called("register_custom_action")) =>
         LET before == heap[last'.obj]
             after == heap'[last'.obj]
             service == last'.service
             target == IF last'.op = "register_service" THEN last'.app_name
                       ELSE Head(Services[service].module)
             controller_name == Services[service].service_name \o <<"Controller">>
             written == IF last'.op = "register_service" THEN {}
                        ELSE {last'.action.function_name}
         IN /\ \A o \in DOMAIN heap : o # last'.obj => heap'[o] = heap[o]
            /\ Keys(after) \subseteq Keys(before) \cup {target}
            /\ KeptBut(before, after, {target})
            /\ KeptBut(ControllersIn(before, target), ControllersIn(after, target),
                       {controller_name})
            /\ Has(ControllersIn(before, target), controller_name) =>
                 KeptBut(Get(ControllersIn(before, target), controller_name),
                         Get(ControllersIn(after, target), controller_name),
                         written)
            /\ MessageNames(before, target) \subseteq MessageNames(after, target)]_vars

\* a third call on a registry that holds two apps, made into an app that
\* already had a controller of another service and messages
C33_Witness ==
    /\ last.op \in {"register_service", "register_custom_action"}
    /\ calls = 3
    /\ Cardinality(Keys(heap[last.obj])) = 2
    /\ Cardinality(Keys(ControllersIn(heap[last.obj], last.app_name))) = 2
    /\ Cardinality(MessageNames(heap[last.obj], last.app_name)) > 2

====
